---- MODULE Spec2Model ----
(***************************************************************************)
(* Unified drive-adapter layer of cloud-auto-save: the adapter factory     *)
(* and its instance cache, the token lifecycle of the Aliyun and Xunlei    *)
(* adapters, the persistence hook for rotated refresh tokens, and the      *)
(* breadth-first share-tree resolvers of the Aliyun, 115 and Baidu         *)
(* adapters.  Each subsystem has its own specification over the shared     *)
(* variables; the variables of the other subsystems stay parked.           *)
(***************************************************************************)
EXTENDS Integers, Sequences, FiniteSets, TLC

VARIABLES
    \* ---- AdapterFactory (adapters/adapter_factory.py) ----
    instance_cache,   \* AdapterFactory._instance_cache: cache key -> object id (None if absent)
    heap,             \* the adapter objects constructed so far: object id -> cache key it was built for
    callers,          \* the threads that call the factory
    fpc,              \* per thread: position inside create_adapter
    fkey,             \* per thread: local cache_key
    fadapter,         \* per thread: local adapter
    fcached,          \* per thread: local cached (the cache entry its last lookup saw)
    fret,             \* per thread: value returned by its last create_adapter call
    handed,           \* per cache key: the instances returned for it since the last clear_cache
    stale,            \* the instances returned before the last clear_cache
    clears,           \* number of clear_cache calls so far
    \* ---- clock ----
    now,              \* time.time(), in seconds
    \* ---- one AliyunAdapter (adapters/aliyun_adapter.py) ----
    al_token,         \* self._token: NoToken or [expire_time]
    al_refresh_token, \* self._refresh_token
    al_lock,          \* self._token_lock: the thread holding it, None if free
    al_requests,      \* POSTs to /v2/account/token counted by the transport
    al_rejected,      \* how many of them the provider did not answer with a token
    al_expires_in,    \* the expires_in the provider answers with
    al_saved,         \* the secrets handed to _global_config_saver, in order
    apc,              \* per thread: position inside _ensure_token_valid
    aret,             \* per thread: value returned by _ensure_token_valid
    \* ---- one XunleiAdapter (adapters/xunlei_adapter.py) ----
    xl_access_token, xl_access_token_expire,     \* self._access_token, self._access_token_expire
    xl_captcha_token, xl_captcha_token_expire,   \* self._captcha_token, self._captcha_token_expire
    xl_refresh_token, \* self._refresh_token
    xl_lock,          \* self._token_lock
    xl_access_requests,   \* POSTs to /v1/auth/token counted by the transport
    xl_captcha_requests,  \* POSTs to /v1/shield/captcha/init counted by the transport
    xl_rejected,      \* refresh or captcha requests the provider did not answer with a token
    xl_expires_in,    \* the expires_in the two endpoints answer with: [access, captcha]
    xl_start,         \* which tokens were empty or expired when the calls began
    xl_saved,         \* the secrets handed to _global_config_saver, in order
    xpc,              \* per thread: position inside _ensure_tokens_valid
    xlocal,           \* per thread: locals access_ok, captcha_ok of the double check
    xret,             \* per thread: value returned by _ensure_tokens_valid
    \* ---- persisted configuration and the adapters built from it ----
    config,           \* config["accounts"]: the account records of the configuration file
    padapter,         \* per account: the adapter create_adapter built from it, NoAdapter if none
    applied,          \* per account: the timestamps of the rotation results handed over for it
    \* ---- one resolution of a target in a share tree by breadth-first search ----
    resolver,         \* the adapter whose resolver runs: "aliyun", "115" or "baidu"
    share,            \* the provider's data: children (listing per container), isdir, target
    bqueue,           \* queue: the (container id, breadcrumb) pairs still to visit
    bnext,            \* next_queue of the level-by-level resolvers
    blevel,           \* iterations of "for _ in range(max_depth)" completed
    bvisited,         \* visited (Aliyun only)
    bresult,          \* the breadcrumb returned
    bpc,              \* "call", "run" or "done"
    benq,             \* per container id: how many times it was appended to a queue
    blisted,          \* container ids whose listing was requested
    bexamined,        \* ids of the listing items the loops have looked at
    \* ---- one paginated listing (ls_dir / get_detail) ----
    lister,           \* the adapter that lists: "115", "aliyun", "xunlei" or "uc"
    lscript,          \* the provider's answers to the 1st, 2nd, ... page request
    ltotal,           \* metadata._total the provider reports (0 when it reports none)
    lreq,             \* page requests sent so far
    lmerged,          \* list_merge / file_list: the items accumulated
    lpc,              \* "run" or "done"
    lcode,            \* "code" of the result returned
    \* ---- AccountManager: the table of loaded accounts and task routing ----
    rconfig,          \* config_data["accounts"] given to the last load_accounts
    rloads,           \* calls of load_accounts so far
    radapters,        \* self.adapters: name -> adapter, in insertion order
    rdefault,         \* self.default_adapter (<<>> for None)
    ractive,          \* the adapter objects whose is_active is True
    rtask,            \* <<task>> of the last get_adapter_for_task call, <<>> before any
    rresult,          \* the adapter that call returned (<<>> for None)
    \* ---- public operations of one AliyunAdapter, called one after the other ----
    op,               \* the operation running or last run: kind, phase, requests left, ...
    oresult,          \* outcome of the last operation that returned: "none", "ok", "fail"
    odone,            \* operations that have returned
    \* ---- API requests of XunleiAdapter._request ----
    xapi,             \* per thread, what _request did: "none", "sent" or "TokenInvalid"
    \* ---- AccountManager on top of the factory ----
    madapters,        \* self.adapters: account name -> adapter object (None: no entry)
    mdefault,         \* self.default_adapter
    mret,             \* the last lookup made on the manager and the adapter it returned
    mgets,            \* lookups made on the manager
    \* ---- rotation of the secret of cached adapters ----
    csecret,          \* per provider, the secret of its account in the configuration file
    rotator,          \* per provider, the adapter object that rotated the secret (None: no rotation yet)
    \* ---- the admin update() handler racing with save_config ----
    updating,         \* update(): its position, the configuration it read, the accounts of the request
    sav,              \* save_config: its position, the configuration it read, the account and the new secret
    persisted,        \* per account, the rotated secret whose save_config has returned (<<>>: none)
    \* ---- AdapterFactory.URL_PATTERNS ----
    URL_PATTERNS,     \* the pattern table, in the order of the dict: entries [pattern, drive_type]
    uquery,           \* the last get_drive_type_by_url call: its url and its result
    \* ---- Adapter operations as the caller sees them (adapters/*_adapter.py) ----
    call,             \* the operation in progress on an adapter: where it is, what the provider did, what came back
    \* ---- save_file of one adapter (adapters/aliyun_adapter.py, adapters/baidu_adapter.py) ----
    batch,            \* the save_file call in progress: what was asked, what the provider did with each item, what was returned
    \* ---- query_task of one adapter (adapters/uc_adapter.py, adapters/xunlei_adapter.py) ----
    poll,             \* the query_task call in progress: the answers to its status requests so far and what it returned
    \* ---- mkdir of a path that exists (AliyunAdapter, XunleiAdapter) ----
    mkd,              \* the mkdir call: adapter, path, position in it, what it made and returned
    \* ---- save_file with file_names: the listings before and after (Cloud115Adapter, BaiduAdapter) ----
    named,            \* the save_file call: names asked, target directory, listings, result
    \* ---- the outcome of each adapter's last init() ----
    rfailed,          \* the adapters whose last init() failed
    \* ---- BaiduAdapter._resolve_fid_to_path and its callers ----
    fres              \* the call: operation, fs_id, the drive, level of the search, path, result

factoryVars == <<instance_cache, heap, callers, fpc, fkey, fadapter, fcached, fret, handed, stale, clears>>

aliyunVars == <<al_token, al_refresh_token, al_lock, al_requests, al_rejected, al_expires_in,
                al_saved, apc, aret>>

xunleiVars == <<xl_access_token, xl_access_token_expire, xl_captcha_token, xl_captcha_token_expire,
                xl_refresh_token, xl_lock, xl_access_requests, xl_captcha_requests, xl_rejected,
                xl_expires_in, xl_start, xl_saved, xpc, xlocal, xret>>

persistVars == <<config, padapter, applied>>

bfsVars == <<resolver, share, bqueue, bnext, blevel, bvisited, bresult, bpc,
             benq, blisted, bexamined>>

listVars == <<lister, lscript, ltotal, lreq, lmerged, lpc, lcode>>

\* The subsystems above, and the ones below.
coreVars == <<now, factoryVars, aliyunVars, xunleiVars, persistVars, bfsVars>>

routerVars == <<rconfig, rloads, radapters, rdefault, ractive, rtask, rresult>>

opVars == <<op, oresult, odone>>

xreqVars == <<xapi>>

mgrVars == <<madapters, mdefault, mret, mgets>>

rotVars == <<csecret, rotator>>

raceVars == <<updating, sav, persisted>>

urlVars == <<URL_PATTERNS, uquery>>

callVars == <<call>>

batchVars == <<batch>>

pollVars == <<poll>>

mkdirVars == <<mkd>>

namedVars == <<named>>

authVars == <<rfailed>>

fresVars == <<fres>>

extVars == <<listVars, routerVars, opVars, xreqVars, mgrVars, rotVars, raceVars, urlVars, callVars, batchVars, pollVars, mkdirVars, namedVars, authVars, fresVars>>

vars == <<factoryVars, now, aliyunVars, xunleiVars, persistVars, bfsVars, extVars>>

\* What the operations of one subsystem leave alone: the other subsystems.
factoryFrame == <<now, aliyunVars, xunleiVars, persistVars, bfsVars, extVars>>

clockFrame == <<factoryVars, aliyunVars, xunleiVars, persistVars, bfsVars, extVars>>

aliyunFrame == <<now, factoryVars, xunleiVars, persistVars, bfsVars, extVars>>

xunleiFrame == <<now, factoryVars, aliyunVars, persistVars, bfsVars, extVars>>

persistFrame == <<factoryVars, aliyunVars, xunleiVars, bfsVars, extVars>>

bfsFrame == <<now, factoryVars, aliyunVars, xunleiVars, persistVars, extVars>>

listFrame == <<coreVars, routerVars, opVars, xreqVars, mgrVars, rotVars, raceVars, urlVars, callVars, batchVars, pollVars, mkdirVars, namedVars, authVars, fresVars>>

routerFrame == <<coreVars, listVars, opVars, xreqVars, mgrVars, rotVars, raceVars, urlVars, callVars, batchVars, pollVars, mkdirVars, namedVars, authVars, fresVars>>

\* What the operations of an adapter leave alone besides the adapter's token state.
opFrame == <<factoryVars, xunleiVars, persistVars, bfsVars, listVars, routerVars, xreqVars, mgrVars, rotVars, raceVars, urlVars, callVars, batchVars, pollVars, mkdirVars, namedVars, authVars, fresVars>>

\* What _request leaves alone besides the token state of the adapter.
xreqFrame == <<now, factoryVars, aliyunVars, persistVars, bfsVars, listVars, routerVars, opVars, mgrVars, rotVars, raceVars, urlVars, callVars, batchVars, pollVars, mkdirVars, namedVars, authVars, fresVars>>

\* What the AccountManager leaves alone besides the factory.
mgrFrame == <<now, aliyunVars, xunleiVars, persistVars, bfsVars, listVars, routerVars, opVars, xreqVars, rotVars, raceVars, urlVars, callVars, batchVars, pollVars, mkdirVars, namedVars, authVars, fresVars>>

rotFrame == <<listVars, routerVars, opVars, xreqVars, mgrVars, raceVars, urlVars, callVars, batchVars, pollVars, mkdirVars, namedVars, authVars, fresVars>>

\* What the writers of the configuration file leave alone besides the file.
raceOthers == <<padapter, applied, now, factoryVars, aliyunVars, xunleiVars, bfsVars>>

raceFrame == <<raceOthers, listVars, routerVars, opVars, xreqVars, mgrVars, rotVars, urlVars, callVars, batchVars, pollVars, mkdirVars, namedVars, authVars, fresVars>>

urlFrame == <<coreVars, listVars, routerVars, opVars, xreqVars, mgrVars, rotVars, raceVars, callVars, batchVars, pollVars, mkdirVars, namedVars, authVars, fresVars>>

callFrame == <<coreVars, listVars, routerVars, opVars, xreqVars, mgrVars, rotVars, raceVars, urlVars, batchVars, pollVars, mkdirVars, namedVars, authVars, fresVars>>

batchFrame == <<coreVars, listVars, routerVars, opVars, xreqVars, mgrVars, rotVars, raceVars, urlVars, callVars, pollVars, mkdirVars, namedVars, authVars, fresVars>>

pollFrame == <<coreVars, listVars, routerVars, opVars, xreqVars, mgrVars, rotVars, raceVars, urlVars, callVars, batchVars, mkdirVars, namedVars, authVars, fresVars>>

mkdirFrame == <<coreVars, listVars, routerVars, opVars, xreqVars, mgrVars, rotVars, raceVars, urlVars, callVars, batchVars, pollVars, namedVars, authVars, fresVars>>

namedFrame == <<coreVars, listVars, routerVars, opVars, xreqVars, mgrVars, rotVars, raceVars, urlVars, callVars, batchVars, pollVars, mkdirVars, authVars, fresVars>>

authFrame == <<coreVars, listVars, opVars, xreqVars, mgrVars, rotVars, raceVars, urlVars, callVars, batchVars, pollVars, mkdirVars, namedVars, fresVars>>

fresFrame == <<coreVars, listVars, routerVars, opVars, xreqVars, mgrVars, rotVars, raceVars, urlVars, callVars, batchVars, pollVars, mkdirVars, namedVars, authVars>>

None == 0

-----------------------------------------------------------------------------
(* Bounds of the model.                                                     *)

NumThreads == 2      \* concurrent callers
MaxObjects == 2      \* adapter objects constructed in one behaviour
MaxClears == 1       \* clear_cache calls in one behaviour
MaxTicks == 3        \* minutes the clock advances in one behaviour
PageLimit == 2       \* items per listing page (the code asks for 50 or 100)
SmallNodes == 5      \* nodes of the share trees that are enumerated in full
CycleNodes == 2      \* nodes of the shares whose listings repeat ids
NamedDepthBound == 10  \* the greatest depth bound the specification names
MaxPages == 3        \* page answers the provider has prepared for one listing
AccountSlots == 2    \* accounts in a configuration
MaxLoads == 2        \* calls of load_accounts in one behaviour
MaxSteps == 2        \* paths given to one get_fids call
MaxOps == 2          \* operations called on the adapter in one behaviour
MaxGets == 2         \* lookups made on the AccountManager in one behaviour
MaxUpdates == 2      \* update() requests served in one behaviour
MaxItems == 3        \* files of a share that one save_file call can name
max_retries == 4     \* status requests of one query_task call (the code allows 60)

-----------------------------------------------------------------------------
(* AdapterFactory                                                           *)

\* The providers of ADAPTER_MAP that the model covers.
ADAPTER_MAP == {"aliyun", "xunlei"}

\* drive_type arguments: the registered providers and one unknown name.
DriveTypes == ADAPTER_MAP \cup {"nodrive"}

\* Credential secrets (cookie / refresh token strings).
Cookies == {"s1", "s2"}

\* hashlib.md5(cookie).hexdigest()[:16]: a digest string per secret.
Md5Prefix(cookie) ==
    CASE cookie = "s1" -> "8ddf878039b70767"
      [] cookie = "s2" -> "3d2172418ce305c7"
      [] OTHER -> "d41d8cd98f00b204"

\* AdapterFactory._make_cache_key
_make_cache_key(drive_type, cookie) == <<drive_type, Md5Prefix(cookie)>>

CacheKeys == {_make_cache_key(d, c) : d \in ADAPTER_MAP, c \in Cookies}

Threads == 1..NumThreads

\* a return of create_adapter: the caller receives `obj` for `key`
Return(t, key, obj) ==
    /\ fret' = [fret EXCEPT ![t] = obj]
    /\ handed' = IF obj = None THEN handed
                 ELSE [handed EXCEPT ![key] = @ \cup {obj}]

\* Mutant of CacheLookup: the cache is never consulted.
CacheLookupMiss(key) == None

\* create_adapter, lines 91-92: cls._instance_cache.get(cache_key)
CacheLookup(key) == instance_cache[key]

\* create_adapter, lines 85-94: provider dispatch and cache lookup.
CreateAdapterLookup(t, drive_type, cookie) ==
    /\ t \in callers
    /\ fpc[t] = "idle"
    /\ IF drive_type \notin ADAPTER_MAP
       THEN /\ fret' = [fret EXCEPT ![t] = None]
            /\ UNCHANGED <<fpc, fkey, fcached, handed>>
       ELSE LET key == _make_cache_key(drive_type, cookie)
                cached == CacheLookup(key)
            IN  /\ fkey' = [fkey EXCEPT ![t] = key]
                /\ fcached' = [fcached EXCEPT ![t] = cached]
                /\ IF cached # None
                   THEN Return(t, key, cached) /\ UNCHANGED fpc
                   ELSE /\ fpc' = [fpc EXCEPT ![t] = "construct"]
                        /\ UNCHANGED <<fret, handed>>
    /\ UNCHANGED <<instance_cache, heap, callers, fadapter, stale, clears, factoryFrame>>

\* create_adapter, lines 97-98 and 101-103: adapter_class(cookie=cookie, index=index);
\* a constructor that raises makes create_adapter return None.
CreateAdapterConstruct(t) ==
    /\ t \in callers
    /\ fpc[t] = "construct"
    /\ \E raises \in BOOLEAN :
         IF raises
         THEN /\ fpc' = [fpc EXCEPT ![t] = "idle"]
              /\ fret' = [fret EXCEPT ![t] = None]
              /\ UNCHANGED <<heap, fadapter>>
         ELSE /\ Len(heap) < MaxObjects
              /\ heap' = Append(heap, fkey[t])
              /\ fadapter' = [fadapter EXCEPT ![t] = Len(heap) + 1]
              /\ fpc' = [fpc EXCEPT ![t] = "store"]
              /\ UNCHANGED fret
    /\ UNCHANGED <<instance_cache, callers, fkey, fcached, handed, stale, clears, factoryFrame>>

\* create_adapter, lines 99-100: cls._instance_cache[cache_key] = adapter; return adapter
CreateAdapterStore(t) ==
    /\ t \in callers
    /\ fpc[t] = "store"
    /\ instance_cache' = [instance_cache EXCEPT ![fkey[t]] = fadapter[t]]
    /\ fpc' = [fpc EXCEPT ![t] = "idle"]
    /\ Return(t, fkey[t], fadapter[t])
    /\ UNCHANGED <<heap, callers, fkey, fadapter, fcached, stale, clears, factoryFrame>>

\* clear_cache, line 108: cls._instance_cache.clear()
ClearedCache == [k \in CacheKeys |-> None]

\* AdapterFactory.clear_cache
ClearCache(t) ==
    /\ t \in callers
    /\ fpc[t] = "idle"
    /\ clears < MaxClears
    /\ instance_cache' = ClearedCache
    /\ stale' = stale \cup UNION {handed[k] : k \in CacheKeys}
    /\ handed' = [k \in CacheKeys |-> {}]
    /\ clears' = clears + 1
    /\ UNCHANGED <<heap, callers, fpc, fkey, fadapter, fcached, fret, factoryFrame>>

FactoryInit(threads) ==
    /\ instance_cache = [k \in CacheKeys |-> None]
    /\ heap = <<>>
    /\ callers = threads
    /\ fpc = [t \in Threads |-> "idle"]
    /\ fkey = [t \in Threads |-> <<"", "">>]
    /\ fadapter = [t \in Threads |-> None]
    /\ fcached = [t \in Threads |-> None]
    /\ fret = [t \in Threads |-> None]
    /\ handed = [k \in CacheKeys |-> {}]
    /\ stale = {}
    /\ clears = 0

FactoryNext ==
    \E t \in Threads :
        \/ \E d \in DriveTypes, c \in Cookies : CreateAdapterLookup(t, d, c)
        \/ CreateAdapterConstruct(t)
        \/ CreateAdapterStore(t)
        \/ ClearCache(t)

\* The factory is not in use.
FactoryParked == FactoryInit({})

-----------------------------------------------------------------------------
(* Clock                                                                    *)

\* One minute passes.
Tick ==
    /\ now < 60 * MaxTicks
    /\ now' = now + 60
    /\ UNCHANGED clockFrame

ClockParked == now = 0

-----------------------------------------------------------------------------
(* Refresh-token secrets and their rotation by the provider.                *)

\* The refresh token the provider issues when it rotates `secret`.
Rotated(secret) ==
    CASE secret = "r0" -> "r1"
      [] secret = "r1" -> "r2"
      [] OTHER -> secret

-----------------------------------------------------------------------------
(* AliyunAdapter: token lifecycle                                           *)

NoToken == [absent |-> TRUE]

\* Safety margin of AliyunToken.expire_time, in seconds.
AliyunMargin == 60

\* expires_in values the token endpoint answers with.
AliyunExpiresIn == {60, 120, 7200}

\* Answers of /v2/account/token: no access_token (or a transport error), or
\* a token with a lifetime and a refresh_token that is the one sent, a
\* rotated one, or missing.
AliyunResponses ==
    {[ok |-> FALSE, refresh |-> "same"]} \cup [ok : {TRUE}, refresh : {"same", "rotated", "missing"}]

\* AliyunToken.__init__: expire_time = time.time() + expires_in - 60 when the
\* answer carries no numeric expire_time; refresh_token defaults to "".
AliyunToken(resp, sent) ==
    [expire_time |-> now + al_expires_in - AliyunMargin,
     refresh_token |-> CASE resp.refresh = "same" -> sent
                         [] resp.refresh = "rotated" -> Rotated(sent)
                         [] OTHER -> ""]

\* Mutant of is_expired: the token counts as valid at its expire_time.
is_expired_late(token) == now > token.expire_time

\* AliyunToken.is_expired
is_expired(token) == now >= token.expire_time

\* _ensure_token_valid, line 265: not self._token or self._token.is_expired
AliyunNeedsRefresh == al_token = NoToken \/ is_expired(al_token)

\* _ensure_token_valid, lines 265-267: the validity check, made without the lock.
AliyunEnsureCheck(t) ==
    /\ apc[t] = "start"
    /\ IF AliyunNeedsRefresh
       THEN apc' = [apc EXCEPT ![t] = "refresh"] /\ UNCHANGED aret
       ELSE apc' = [apc EXCEPT ![t] = "done"] /\ aret' = [aret EXCEPT ![t] = TRUE]
    /\ UNCHANGED <<al_token, al_refresh_token, al_lock, al_requests, al_rejected, al_expires_in,
                   al_saved, aliyunFrame>>

\* _do_refresh_token, line 216: with self._token_lock
AliyunAcquire(t) ==
    /\ apc[t] = "refresh"
    /\ al_lock = None
    /\ al_lock' = t
    /\ apc' = [apc EXCEPT ![t] = "locked"]
    /\ UNCHANGED <<al_token, al_refresh_token, al_requests, al_rejected, al_expires_in, al_saved,
                   aret, aliyunFrame>>

\* _do_refresh_token, lines 217-255, run with the lock held: the exchange
\* with the token endpoint, the token update, _save_refresh_token when the
\* refresh token changed, and the release of the lock on return.
AliyunExchange(t) ==
    /\ apc[t] = "locked"
    /\ al_lock = t
    /\ al_lock' = None
    /\ apc' = [apc EXCEPT ![t] = "done"]
    /\ UNCHANGED <<al_expires_in, aliyunFrame>>
    /\ IF al_refresh_token = ""
       THEN /\ aret' = [aret EXCEPT ![t] = FALSE]
            /\ UNCHANGED <<al_token, al_refresh_token, al_requests, al_rejected, al_saved>>
       ELSE \E resp \in AliyunResponses :
              /\ al_requests' = al_requests + 1
              /\ IF ~resp.ok
                 THEN /\ aret' = [aret EXCEPT ![t] = FALSE]
                      /\ al_rejected' = al_rejected + 1
                      /\ UNCHANGED <<al_token, al_refresh_token, al_saved>>
                 ELSE LET token == AliyunToken(resp, al_refresh_token)
                      IN  /\ al_token' = [expire_time |-> token.expire_time]
                          /\ al_refresh_token' = token.refresh_token
                          /\ al_saved' = IF al_refresh_token # token.refresh_token
                                         THEN Append(al_saved, token.refresh_token)
                                         ELSE al_saved
                          /\ aret' = [aret EXCEPT ![t] = TRUE]
                          /\ UNCHANGED al_rejected

\* After construction: the token is absent (the constructor's refresh failed)
\* or was issued earlier and has reached its expire_time.
AliyunInit ==
    /\ al_token \in {NoToken, [expire_time |-> 0]}
    /\ al_refresh_token = "r0"
    /\ al_lock = None
    /\ al_requests = 0
    /\ al_rejected = 0
    /\ al_expires_in \in AliyunExpiresIn
    /\ al_saved = <<>>
    /\ apc = [t \in Threads |-> "start"]
    /\ aret = [t \in Threads |-> FALSE]

AliyunParked ==
    /\ al_token = NoToken
    /\ al_refresh_token = ""
    /\ al_lock = None
    /\ al_requests = 0
    /\ al_rejected = 0
    /\ al_expires_in = 0
    /\ al_saved = <<>>
    /\ apc = [t \in Threads |-> "done"]
    /\ aret = [t \in Threads |-> FALSE]

AliyunNext ==
    \E t \in Threads :
        \/ AliyunEnsureCheck(t)
        \/ AliyunAcquire(t)
        \/ AliyunExchange(t)

AliyunAllDone == \A t \in Threads : apc[t] = "done"

-----------------------------------------------------------------------------
(* XunleiAdapter: token lifecycle                                           *)

\* Safety margins of the access token and of the captcha token, in seconds.
XunleiMargin == 120

XunleiCaptchaMargin == 10

\* expires_in values of /v1/auth/token and of /v1/shield/captcha/init.
XunleiExpiresIn == {120, 180, 7200}

XunleiCaptchaExpiresIn == {10, 70, 300}

\* Answers of the two endpoints: no token (or a transport error), or a token;
\* /v1/auth/token also returns the refresh token sent, a rotated one or none.
XunleiResponses ==
    {[ok |-> FALSE, refresh |-> "same"]} \cup [ok : {TRUE}, refresh : {"same", "rotated", "missing"}]

\* self._access_token and time.time() < self._access_token_expire
access_ok == xl_access_token # "" /\ now < xl_access_token_expire

\* Mutant of captcha_ok: the captcha token is taken as expired whenever it is checked.
captcha_ok_never == FALSE

\* self._captcha_token and time.time() < self._captcha_token_expire
captcha_ok == xl_captcha_token # "" /\ now < xl_captcha_token_expire

\* _ensure_tokens_valid, lines 251-255: the first check, made without the lock.
XunleiEnsureCheck(t) ==
    /\ xpc[t] = "start"
    /\ IF access_ok /\ captcha_ok
       THEN xpc' = [xpc EXCEPT ![t] = "done"] /\ xret' = [xret EXCEPT ![t] = TRUE]
       ELSE xpc' = [xpc EXCEPT ![t] = "lock"] /\ UNCHANGED xret
    /\ UNCHANGED <<xl_access_token, xl_access_token_expire, xl_captcha_token,
                   xl_captcha_token_expire, xl_refresh_token, xl_lock, xl_access_requests,
                   xl_captcha_requests, xl_rejected, xl_expires_in, xl_start, xl_saved, xlocal,
                   xunleiFrame>>

\* Mutant of DoubleCheck: the values of the first, unlocked check are reused.
DoubleCheckStale == [access_ok |-> FALSE, captcha_ok |-> FALSE]

\* _ensure_tokens_valid, lines 259-260: both tokens are checked again under the lock.
DoubleCheck == [access_ok |-> access_ok, captcha_ok |-> captcha_ok]

\* the lock is released and _ensure_tokens_valid returns `value`
XunleiReturn(t, value) ==
    /\ xl_lock' = None
    /\ xpc' = [xpc EXCEPT ![t] = "done"]
    /\ xret' = [xret EXCEPT ![t] = value]

\* _ensure_tokens_valid, lines 257-260: with self._token_lock, and the double check.
XunleiAcquire(t) ==
    /\ xpc[t] = "lock"
    /\ xl_lock = None
    /\ LET again == DoubleCheck
       IN  /\ xlocal' = [xlocal EXCEPT ![t] = again]
           /\ IF ~again.access_ok
              THEN xl_lock' = t /\ xpc' = [xpc EXCEPT ![t] = "access"] /\ UNCHANGED xret
              ELSE IF ~again.captcha_ok
              THEN xl_lock' = t /\ xpc' = [xpc EXCEPT ![t] = "captcha"] /\ UNCHANGED xret
              ELSE XunleiReturn(t, TRUE)
    /\ UNCHANGED <<xl_access_token, xl_access_token_expire, xl_captcha_token,
                   xl_captcha_token_expire, xl_refresh_token, xl_access_requests,
                   xl_captcha_requests, xl_rejected, xl_expires_in, xl_start, xl_saved,
                   xunleiFrame>>

\* _ensure_tokens_valid, lines 262-264, and _refresh_access_token, lines 151-202.
XunleiRefreshAccess(t) ==
    /\ xpc[t] = "access"
    /\ xl_lock = t
    /\ IF xl_refresh_token = ""
       THEN /\ XunleiReturn(t, FALSE)
            /\ UNCHANGED <<xl_access_token, xl_access_token_expire, xl_refresh_token,
                           xl_access_requests, xl_rejected, xl_saved>>
       ELSE \E resp \in XunleiResponses :
              /\ xl_access_requests' = xl_access_requests + 1
              /\ IF ~resp.ok
                 THEN /\ XunleiReturn(t, FALSE)
                      /\ xl_rejected' = xl_rejected + 1
                      /\ UNCHANGED <<xl_access_token, xl_access_token_expire,
                                     xl_refresh_token, xl_saved>>
                 ELSE LET new_refresh == CASE resp.refresh = "same" -> xl_refresh_token
                                           [] resp.refresh = "rotated" -> Rotated(xl_refresh_token)
                                           [] OTHER -> ""
                          changed == new_refresh # "" /\ new_refresh # xl_refresh_token
                      IN  /\ xl_access_token' = "access"
                          /\ xl_access_token_expire' = now + xl_expires_in.access - XunleiMargin
                          /\ xl_refresh_token' = IF changed THEN new_refresh ELSE xl_refresh_token
                          /\ xl_saved' = IF changed THEN Append(xl_saved, new_refresh) ELSE xl_saved
                          /\ UNCHANGED xl_rejected
                          /\ IF ~xlocal[t].captcha_ok
                             THEN xpc' = [xpc EXCEPT ![t] = "captcha"] /\ UNCHANGED <<xl_lock, xret>>
                             ELSE XunleiReturn(t, TRUE)
    /\ UNCHANGED <<xl_captcha_token, xl_captcha_token_expire, xl_captcha_requests,
                   xl_expires_in, xl_start, xlocal, xunleiFrame>>

\* _ensure_tokens_valid, lines 266-270, and _refresh_captcha_token, lines 204-247.
XunleiRefreshCaptcha(t) ==
    /\ xpc[t] = "captcha"
    /\ xl_lock = t
    /\ xl_captcha_requests' = xl_captcha_requests + 1
    /\ \E ok \in BOOLEAN :
         IF ok
         THEN /\ xl_captcha_token' = "captcha"
              /\ xl_captcha_token_expire' = now + xl_expires_in.captcha - XunleiCaptchaMargin
              /\ XunleiReturn(t, TRUE)
              /\ UNCHANGED xl_rejected
         ELSE /\ XunleiReturn(t, FALSE)
              /\ xl_rejected' = xl_rejected + 1
              /\ UNCHANGED <<xl_captcha_token, xl_captcha_token_expire>>
    /\ UNCHANGED <<xl_access_token, xl_access_token_expire, xl_refresh_token,
                   xl_access_requests, xl_expires_in, xl_start, xl_saved, xlocal, xunleiFrame>>

\* After construction (lines 131-134) both tokens are empty; after an earlier
\* init() either may be held and have reached its expiry or not.  At least one
\* of the two is empty or expired.
XunleiInit ==
    /\ xl_access_token \in {"", "access"}
    /\ xl_access_token_expire \in {0, 60}
    /\ xl_access_token = "" => xl_access_token_expire = 0
    /\ xl_captcha_token \in {"", "captcha"}
    /\ xl_captcha_token_expire \in {0, 60}
    /\ xl_captcha_token = "" => xl_captcha_token_expire = 0
    /\ xl_access_token_expire = 0 \/ xl_captcha_token_expire = 0
    /\ xl_refresh_token = "r0"
    /\ xl_lock = None
    /\ xl_access_requests = 0
    /\ xl_captcha_requests = 0
    /\ xl_rejected = 0
    /\ xl_expires_in \in [access : XunleiExpiresIn, captcha : XunleiCaptchaExpiresIn]
    /\ xl_start = [access_expired |-> xl_access_token_expire = 0,
                   captcha_expired |-> xl_captcha_token_expire = 0]
    /\ xl_saved = <<>>
    /\ xpc = [t \in Threads |-> "start"]
    /\ xlocal = [t \in Threads |-> [access_ok |-> FALSE, captcha_ok |-> FALSE]]
    /\ xret = [t \in Threads |-> FALSE]

XunleiParked ==
    /\ xl_access_token = ""
    /\ xl_access_token_expire = 0
    /\ xl_captcha_token = ""
    /\ xl_captcha_token_expire = 0
    /\ xl_refresh_token = ""
    /\ xl_lock = None
    /\ xl_access_requests = 0
    /\ xl_captcha_requests = 0
    /\ xl_rejected = 0
    /\ xl_expires_in = [access |-> 0, captcha |-> 0]
    /\ xl_start = [access_expired |-> TRUE, captcha_expired |-> TRUE]
    /\ xl_saved = <<>>
    /\ xpc = [t \in Threads |-> "done"]
    /\ xlocal = [t \in Threads |-> [access_ok |-> FALSE, captcha_ok |-> FALSE]]
    /\ xret = [t \in Threads |-> FALSE]

XunleiNext ==
    \E t \in Threads :
        \/ XunleiEnsureCheck(t)
        \/ XunleiAcquire(t)
        \/ XunleiRefreshAccess(t)
        \/ XunleiRefreshCaptcha(t)

XunleiAllDone == \A t \in Threads : xpc[t] = "done"
-----------------------------------------------------------------------------
(* XunleiAdapter.init(), lines 345-364, called by a thread on the adapter   *)
(* that other threads use: it runs _refresh_access_token and                *)
(* _refresh_captcha_token directly.  A thread at "init_access" or           *)
(* "init_captcha" is inside the refresh function, as a thread at "access"   *)
(* or "captcha" is inside it below _ensure_tokens_valid; the step that      *)
(* takes it on is the arrival of the answer.                                *)

\* init() returns `value` (False, or the account information).
XunleiInitReturn(t, value) ==
    /\ xpc' = [xpc EXCEPT ![t] = "done"]
    /\ xret' = [xret EXCEPT ![t] = value]

\* init, lines 347-351: without a refresh_token it returns False, otherwise
\* it enters _refresh_access_token.
XunleiInitCall(t) ==
    /\ xpc[t] = "start"
    /\ IF xl_refresh_token = ""
       THEN XunleiInitReturn(t, FALSE)
       ELSE xpc' = [xpc EXCEPT ![t] = "init_access"] /\ UNCHANGED xret
    /\ UNCHANGED <<xl_access_token, xl_access_token_expire, xl_captcha_token,
                   xl_captcha_token_expire, xl_refresh_token, xl_lock, xl_access_requests,
                   xl_captcha_requests, xl_rejected, xl_expires_in, xl_start, xl_saved, xlocal,
                   xunleiFrame>>

\* init, lines 351-352, and _refresh_access_token, lines 151-202: _token_lock
\* is neither taken nor tested.
XunleiInitAccess(t) ==
    /\ xpc[t] = "init_access"
    /\ IF xl_refresh_token = ""
       THEN /\ XunleiInitReturn(t, FALSE)
            /\ UNCHANGED <<xl_access_token, xl_access_token_expire, xl_refresh_token,
                           xl_access_requests, xl_rejected, xl_saved>>
       ELSE \E resp \in XunleiResponses :
              /\ xl_access_requests' = xl_access_requests + 1
              /\ IF ~resp.ok
                 THEN /\ XunleiInitReturn(t, FALSE)
                      /\ xl_rejected' = xl_rejected + 1
                      /\ UNCHANGED <<xl_access_token, xl_access_token_expire,
                                     xl_refresh_token, xl_saved>>
                 ELSE LET new_refresh == CASE resp.refresh = "same" -> xl_refresh_token
                                           [] resp.refresh = "rotated" -> Rotated(xl_refresh_token)
                                           [] OTHER -> ""
                          changed == new_refresh # "" /\ new_refresh # xl_refresh_token
                      IN  /\ xl_access_token' = "access"
                          /\ xl_access_token_expire' = now + xl_expires_in.access - XunleiMargin
                          /\ xl_refresh_token' = IF changed THEN new_refresh ELSE xl_refresh_token
                          /\ xl_saved' = IF changed THEN Append(xl_saved, new_refresh) ELSE xl_saved
                          /\ xpc' = [xpc EXCEPT ![t] = "init_captcha"]
                          /\ UNCHANGED <<xl_rejected, xret>>
    /\ UNCHANGED <<xl_captcha_token, xl_captcha_token_expire, xl_lock, xl_captcha_requests,
                   xl_expires_in, xl_start, xlocal, xunleiFrame>>

\* init, lines 354-364, and _refresh_captcha_token, lines 204-247: a failure
\* is logged and init returns the account information all the same.
XunleiInitCaptcha(t) ==
    /\ xpc[t] = "init_captcha"
    /\ xl_captcha_requests' = xl_captcha_requests + 1
    /\ \E ok \in BOOLEAN :
         IF ok
         THEN /\ xl_captcha_token' = "captcha"
              /\ xl_captcha_token_expire' = now + xl_expires_in.captcha - XunleiCaptchaMargin
              /\ UNCHANGED xl_rejected
         ELSE /\ xl_rejected' = xl_rejected + 1
              /\ UNCHANGED <<xl_captcha_token, xl_captcha_token_expire>>
    /\ XunleiInitReturn(t, TRUE)
    /\ UNCHANGED <<xl_access_token, xl_access_token_expire, xl_refresh_token, xl_lock,
                   xl_access_requests, xl_expires_in, xl_start, xl_saved, xlocal, xunleiFrame>>

XunleiInitNext ==
    \E t \in Threads :
        \/ XunleiInitCall(t)
        \/ XunleiInitAccess(t)
        \/ XunleiInitCaptcha(t)

-----------------------------------------------------------------------------
(* Persistence of rotated refresh tokens: _config_saver_factory.save_config *)
(* of aliyun_adapter.py (lines 63-102) and of xunlei_adapter.py (69-105),   *)
(* which differ only in the drive_type they look for.                       *)

\* The configuration the program starts from: two Aliyun accounts and one
\* Xunlei account, each with the secret it was configured with.
InitConfig ==
    << [name |-> "acctA", drive_type |-> "aliyun", cookie |-> <<"cfg", 1, 0>>, token_updated_at |-> 0],
       [name |-> "acctB", drive_type |-> "aliyun", cookie |-> <<"cfg", 2, 0>>, token_updated_at |-> 0],
       [name |-> "acctX", drive_type |-> "xunlei", cookie |-> <<"cfg", 3, 0>>, token_updated_at |-> 0] >>

Accounts == 1..Len(InitConfig)

NoAdapter == [absent |-> TRUE]

\* The rotation result of account i with timestamp T: the secret the provider
\* issued at T, and the updated_at the adapter recorded for it.
RotationResult(i, T) == [refresh_token |-> <<"rot", i, T>>, updated_at |-> T]

\* Timestamps up to the present.
Past == {60 * k : k \in 0..MaxTicks} \cap 0..now

\* save_config, lines 78-89: the entries the loop writes.  Without an account
\* name every account of the drive type is written; with one, the first
\* account of the drive type that has the name.
Selected(cfg, drive_type, account_name, current_time) ==
    LET match == {i \in 1..Len(cfg) :
                     /\ cfg[i].drive_type = drive_type
                     /\ (account_name = "" \/ cfg[i].name = account_name)}
    IN  IF account_name # "" /\ match # {}
        THEN {CHOOSE i \in match : \A j \in match : i <= j}
        ELSE match

\* save_config(new_refresh_token, account_name): the configuration written
\* back (unchanged when no entry was updated).
save_config(cfg, drive_type, new_refresh_token, account_name, current_time) ==
    LET upd == Selected(cfg, drive_type, account_name, current_time)
    IN  [i \in 1..Len(cfg) |->
            IF i \in upd
            THEN [cfg[i] EXCEPT !.cookie = new_refresh_token,
                                !.token_updated_at = current_time]
            ELSE cfg[i]]

\* The persistence hook is handed the rotation result of account i that
\* carries timestamp T, under the account's name.
SaveRotation(i, T) ==
    /\ T \in Past
    /\ config' = save_config(config, config[i].drive_type, RotationResult(i, T).refresh_token,
                             config[i].name, now)
    /\ applied' = [applied EXCEPT ![i] = @ \cup {T}]
    /\ UNCHANGED <<padapter, now, persistFrame>>

\* AccountManager.load_accounts, adapter_factory.py line 178 (also run.py
\* lines 180 and 232): create_adapter(drive_type, cookie, i) constructs
\* adapter_class(cookie=cookie, index=index); no account name is passed, so
\* the adapter's _account_name is "".
CreateFromConfig(i) ==
    /\ padapter[i] = NoAdapter
    /\ padapter' = [padapter EXCEPT ![i] =
                       [drive_type |-> config[i].drive_type,
                        refresh_token |-> config[i].cookie,
                        account_name |-> ""]]
    /\ UNCHANGED <<config, applied, now, persistFrame>>

\* A refresh of the adapter of account i is answered with a rotated refresh
\* token: _do_refresh_token lines 239-248 / _refresh_access_token lines
\* 182-186 store it, and _save_refresh_token hands it to save_config with
\* the adapter's _account_name.
RotateAndSave(i) ==
    /\ padapter[i] # NoAdapter
    /\ now \notin applied[i]
    /\ LET result == RotationResult(i, now)
       IN  /\ padapter' = [padapter EXCEPT ![i].refresh_token = result.refresh_token]
           /\ config' = save_config(config, padapter[i].drive_type, result.refresh_token,
                                    padapter[i].account_name, now)
    /\ applied' = [applied EXCEPT ![i] = @ \cup {now}]
    /\ UNCHANGED <<now, persistFrame>>

PersistInit ==
    /\ config = InitConfig
    /\ padapter = [i \in Accounts |-> NoAdapter]
    /\ applied = [i \in Accounts |-> {}]

-----------------------------------------------------------------------------
(* Resolution of a target id to its breadcrumb by breadth-first search over *)
(* the listings of a share: AliyunAdapter._bfs_share_path,                  *)
(* Cloud115Adapter._resolve_share_path and BaiduAdapter._bfs_share_tree.    *)
(* The provider answers every listing request; container 0 is the root of   *)
(* the share ("root" for Aliyun, "" for 115, the share's file_list for      *)
(* Baidu).  A breadcrumb is the sequence of the ids of its entries.         *)

Resolvers == {"aliyun", "115", "baidu"}

\* The value returned when the target is not found: [] .
NotFound == <<>>

\* max_depth = 5: the default of _resolve_share_path and of _bfs_share_tree,
\* which no caller overrides.
max_depth == 5

\* The listing page of container c that starts after `offset` items: at most
\* PageLimit items, in the provider's order.
Page(c, offset) ==
    LET all == share.children[c]
        last == IF offset + PageLimit < Len(all) THEN offset + PageLimit ELSE Len(all)
    IN  SubSeq(all, offset + 1, last)

\* cloud115_adapter.py lines 250-286: the pages the "while True" loop reads,
\* one after the other, until a page is empty or shorter than limit.
RECURSIVE AllPages(_, _)
AllPages(c, offset) ==
    LET file_list == Page(c, offset)
    IN  IF file_list = <<>> THEN <<>>
        ELSE IF Len(file_list) < PageLimit THEN file_list
        ELSE file_list \o AllPages(c, offset + PageLimit)

\* The item is appended to the queue with its breadcrumb.
Enqueue(acc, item, new_path) ==
    [acc EXCEPT !.queue = Append(@, <<item, new_path>>),
                !.enq = [@ EXCEPT ![item] = @ + 1]]

\* aliyun_adapter.py lines 527-540: the body of "for item in items".
AliyunItem(acc, item, current_path) ==
    LET new_path == Append(current_path, item)
    IN  IF item = share.target THEN [acc EXCEPT !.found = new_path]
        ELSE IF share.isdir[item] /\ item \notin acc.visited
             THEN [Enqueue(acc, item, new_path) EXCEPT !.visited = @ \cup {item}]
             ELSE acc

\* cloud115_adapter.py lines 267-278: files are skipped, a directory is the
\* target or is appended to next_queue.
Cloud115Item(acc, item, current_path) ==
    LET new_path == Append(current_path, item)
    IN  IF ~share.isdir[item] THEN acc
        ELSE IF item = share.target THEN [acc EXCEPT !.found = new_path]
        ELSE Enqueue(acc, item, new_path)

\* baidu_adapter.py lines 569-578.
BaiduItem(acc, item, current_breadcrumb) ==
    LET new_breadcrumb == Append(current_breadcrumb, item)
    IN  IF item = share.target THEN [acc EXCEPT !.found = new_breadcrumb]
        ELSE IF share.isdir[item] THEN Enqueue(acc, item, new_breadcrumb)
        ELSE acc

\* The loop over the items of a listing, left by "return" at the target.
RECURSIVE ScanItems(_, _, _)
ScanItems(items, path, acc) ==
    IF items = <<>> \/ acc.found # NotFound THEN acc
    ELSE LET item == Head(items)
             seen == [acc EXCEPT !.examined = @ \cup {item}]
         IN  ScanItems(Tail(items), path,
                       CASE resolver = "aliyun" -> AliyunItem(seen, item, path)
                         [] resolver = "115"    -> Cloud115Item(seen, item, path)
                         [] resolver = "baidu"  -> BaiduItem(seen, item, path))

\* The local state of the loops before the items of a listing are scanned.
Locals(queue) ==
    [queue |-> queue, visited |-> bvisited, enq |-> benq, examined |-> bexamined,
     found |-> NotFound]

\* The resolver returns.
BfsReturn(value) ==
    /\ bresult' = value
    /\ bpc' = "done"
    /\ bqueue' = <<>>
    /\ bnext' = <<>>
    /\ UNCHANGED blevel

\* The resolver is called: the queue is set up (aliyun lines 503-504, 115
\* line 247) and, for Baidu, the root entries are checked and the root
\* directories are queued (lines 543-557; the loop at 559 ends at once when
\* the queue is empty).
BfsStart ==
    /\ bpc = "call"
    /\ IF resolver = "baidu"
       THEN LET file_list == share.children[0]
                acc == ScanItems(file_list, <<>>, Locals(<<>>))
            IN  /\ benq' = acc.enq
                /\ bexamined' = acc.examined
                /\ UNCHANGED bvisited
                /\ IF acc.found # NotFound THEN BfsReturn(acc.found)
                   ELSE IF acc.queue = <<>> THEN BfsReturn(NotFound)
                   ELSE /\ bqueue' = acc.queue
                        /\ bpc' = "run"
                        /\ UNCHANGED <<bnext, blevel, bresult>>
       ELSE /\ bqueue' = << <<0, <<>> >> >>
            /\ benq' = [benq EXCEPT ![0] = 1]
            /\ bvisited' = IF resolver = "aliyun" THEN {0} ELSE bvisited
            /\ bpc' = "run"
            /\ UNCHANGED <<bnext, blevel, bresult, bexamined>>
    /\ UNCHANGED <<resolver, share, blisted, bfsFrame>>

\* aliyun_adapter.py lines 506-545: one round of "while queue": the head is
\* popped, its listing is requested once (limit items, no marker is sent for
\* further pages) and scanned.
AliyunVisit ==
    /\ resolver = "aliyun"
    /\ bpc = "run"
    /\ LET current_id == Head(bqueue)[1]
           current_path == Head(bqueue)[2]
           acc == ScanItems(Page(current_id, 0), current_path, Locals(Tail(bqueue)))
       IN  /\ blisted' = blisted \cup {current_id}
           /\ bvisited' = acc.visited
           /\ benq' = acc.enq
           /\ bexamined' = acc.examined
           /\ IF acc.found # NotFound THEN BfsReturn(acc.found)
              ELSE IF acc.queue = <<>> THEN BfsReturn(NotFound)
              ELSE /\ bqueue' = acc.queue
                   /\ UNCHANGED <<bnext, blevel, bresult, bpc>>
    /\ UNCHANGED <<resolver, share, bfsFrame>>

\* One round of "for current, path in queue" inside "for _ in
\* range(max_depth)" (115 lines 249-288, baidu lines 559-583): the items are
\* scanned into next_queue; after the last entry of the level the loop ends
\* when next_queue is empty or max_depth levels are done.
LevelVisit(items) ==
    /\ bpc = "run"
    /\ LET acc == ScanItems(items, Head(bqueue)[2], Locals(bnext))
       IN  /\ blisted' = blisted \cup {Head(bqueue)[1]}
           /\ benq' = acc.enq
           /\ bexamined' = acc.examined
           /\ IF acc.found # NotFound THEN BfsReturn(acc.found)
              ELSE IF Tail(bqueue) # <<>>
                   THEN /\ bqueue' = Tail(bqueue)
                        /\ bnext' = acc.queue
                        /\ UNCHANGED <<blevel, bresult, bpc>>
              ELSE IF acc.queue = <<>> \/ blevel + 1 = max_depth
                   THEN BfsReturn(NotFound)
              ELSE /\ bqueue' = acc.queue
                   /\ bnext' = <<>>
                   /\ blevel' = blevel + 1
                   /\ UNCHANGED <<bresult, bpc>>
    /\ UNCHANGED <<resolver, share, bvisited, bfsFrame>>

\* cloud115_adapter.py lines 250-286: every page of the container is read.
Cloud115Visit ==
    /\ resolver = "115"
    /\ LevelVisit(AllPages(Head(bqueue)[1], 0))

\* baidu_adapter.py lines 561-563: _api_list_shared_paths is called with its
\* defaults page=1, size=100, once per container.
BaiduVisit ==
    /\ resolver = "baidu"
    /\ LevelVisit(Page(Head(bqueue)[1], 0))

BfsNext == BfsStart \/ AliyunVisit \/ Cloud115Visit \/ BaiduVisit

\* The ids of a set in increasing order.
RECURSIVE Ascending(_)
Ascending(S) ==
    IF S = {} THEN <<>>
    ELSE LET least == CHOOSE x \in S : \A y \in S : x <= y
         IN  <<least>> \o Ascending(S \ {least})

\* The share that is the tree of a parent function: every container lists
\* its children in increasing order of id.
TreeShare(parent, isdir, target) ==
    [children |-> [c \in {0} \cup DOMAIN parent |->
                      Ascending({i \in DOMAIN parent : parent[i] = c})],
     isdir |-> isdir,
     target |-> target]

\* Every tree over SmallNodes nodes (a node's parent has a smaller id), with
\* files and directories, only directories having children.
SmallTrees ==
    {sh \in {TreeShare(parent, isdir, target) :
                parent \in {p \in [1..SmallNodes -> 0..(SmallNodes - 1)] :
                               \A i \in 1..SmallNodes : p[i] < i},
                isdir \in [1..SmallNodes -> BOOLEAN],
                target \in 1..SmallNodes} :
        \A c \in 1..SmallNodes : sh.children[c] # <<>> => sh.isdir[c]}

\* A chain of directories one inside the other, deeper than every depth
\* bound the resolvers are given.
DeepChains ==
    {TreeShare([i \in 1..(NamedDepthBound + 1) |-> i - 1],
               [i \in 1..(NamedDepthBound + 1) |-> TRUE], target) :
        target \in 1..(NamedDepthBound + 1)}

\* Listings of up to two entries.
Listings(S) == {<<>>} \cup {<<x>> : x \in S} \cup {<<x, y>> : x, y \in S}

\* Shares whose listings may name a directory twice, or inside itself, or
\* inside one of its descendants; the target may be listed nowhere.
CyclicShares ==
    [children : [0..CycleNodes -> Listings(1..CycleNodes)],
     isdir : {[i \in 1..CycleNodes |-> TRUE]},
     target : 1..CycleNodes]

BfsInit ==
    /\ resolver \in Resolvers
    /\ share \in SmallTrees \cup DeepChains \cup CyclicShares
    /\ bqueue = <<>>
    /\ bnext = <<>>
    /\ blevel = 0
    /\ bvisited = {}
    /\ bresult = NotFound
    /\ bpc = "call"
    /\ benq = [c \in DOMAIN share.children |-> 0]
    /\ blisted = {}
    /\ bexamined = {}

BfsParked ==
    /\ resolver = "none"
    /\ share = <<>>
    /\ bqueue = <<>>
    /\ bnext = <<>>
    /\ blevel = 0
    /\ bvisited = {}
    /\ bresult = NotFound
    /\ bpc = "parked"
    /\ benq = <<>>
    /\ blisted = {}
    /\ bexamined = {}

-----------------------------------------------------------------------------
(* Paginated listings: ls_dir and get_detail of Cloud115Adapter (offset and *)
(* limit), of AliyunAdapter and XunleiAdapter (next_marker and              *)
(* next_page_token) and of UCAdapter (_page and metadata._total).  The page *)
(* size the code asks for (50 or 100) is PageLimit here.  An item is named  *)
(* by the page that serves it and its place on the page.                    *)

Listers == {"115", "aliyun", "xunlei", "uc"}

\* The answers a provider may give to a page request: an error, or a page of
\* up to PageLimit items with or without a cursor to a next page.
PageAnswers ==
    {[ok |-> FALSE, size |-> 0, cursor |-> FALSE]} \cup
    [ok : {TRUE}, size : 0..PageLimit, cursor : BOOLEAN]

\* The answer to the r-th page request; after its prepared answers the
\* provider serves empty pages without a cursor.
PageOf(r) ==
    IF r <= Len(lscript) THEN lscript[r] ELSE [ok |-> TRUE, size |-> 0, cursor |-> FALSE]

\* The items on the page of the r-th answer.
ItemsOf(r) == [j \in 1..PageOf(r).size |-> <<r, j>>]

\* Mutant of ListReturn: an error result carries what was gathered so far.
ListReturnPartial(code, list) ==
    /\ lcode' = code
    /\ lmerged' = (IF code # 0 THEN lmerged ELSE list)
    /\ lpc' = "done"

\* The listing returns: error results carry an empty list.
ListReturn(code, list) ==
    /\ lcode' = code
    /\ lmerged' = list
    /\ lpc' = "done"

\* Mutant of ShortPage: a short page is not taken as the last one.
ShortPageIgnored(file_list) == FALSE

\* cloud115_adapter.py lines 213 and 342: len(file_list) < limit.
ShortPage(file_list) == Len(file_list) < PageLimit

\* One round of "while True" of Cloud115Adapter.ls_dir (lines 306-348) and
\* get_detail (lines 193-221): the page at offset is requested; an error is
\* returned, an empty page ends the loop, a page is appended and a short
\* page ends the loop, otherwise offset += limit.
Cloud115ListPage ==
    /\ lister = "115"
    /\ lpc = "run"
    /\ lreq' = lreq + 1
    /\ LET data == PageOf(lreq + 1)
           file_list == ItemsOf(lreq + 1)
       IN  IF ~data.ok THEN ListReturn(1, <<>>)
           ELSE IF file_list = <<>> THEN ListReturn(0, lmerged)
           ELSE IF ShortPage(file_list) THEN ListReturn(0, lmerged \o file_list)
           ELSE /\ lmerged' = lmerged \o file_list
                /\ UNCHANGED <<lpc, lcode>>
    /\ UNCHANGED <<lister, lscript, ltotal, listFrame>>

\* One round of "while True" of AliyunAdapter.ls_dir (lines 592-619) and
\* get_detail (lines 404-432) and of XunleiAdapter.ls_dir (lines 482-510)
\* and get_detail (lines 428-457): the page at the cursor is requested; an
\* error is returned, the items are appended, and the loop ends when the
\* answer carries no cursor.
CursorListPage ==
    /\ lister \in {"aliyun", "xunlei"}
    /\ lpc = "run"
    /\ lreq' = lreq + 1
    /\ LET data == PageOf(lreq + 1)
           items == ItemsOf(lreq + 1)
       IN  IF ~data.ok THEN ListReturn(1, <<>>)
           ELSE IF ~data.cursor THEN ListReturn(0, lmerged \o items)
           ELSE /\ lmerged' = lmerged \o items
                /\ UNCHANGED <<lpc, lcode>>
    /\ UNCHANGED <<lister, lscript, ltotal, listFrame>>

\* One round of "while True" of UCAdapter.ls_dir (lines 176-211) and
\* get_detail (lines 125-163): page _page is requested; an error result is
\* returned as it is, an empty page ends the loop, a page is appended and
\* the loop ends when len(list_merge) >= metadata._total (0 when absent).
UCListPage ==
    /\ lister = "uc"
    /\ lpc = "run"
    /\ lreq' = lreq + 1
    /\ LET result == PageOf(lreq + 1)
           file_list == ItemsOf(lreq + 1)
       IN  IF ~result.ok THEN ListReturn(1, <<>>)
           ELSE IF file_list = <<>> THEN ListReturn(0, lmerged)
           ELSE IF Len(lmerged \o file_list) >= ltotal THEN ListReturn(0, lmerged \o file_list)
           ELSE /\ lmerged' = lmerged \o file_list
                /\ UNCHANGED <<lpc, lcode>>
    /\ UNCHANGED <<lister, lscript, ltotal, listFrame>>

ListNext == Cloud115ListPage \/ CursorListPage \/ UCListPage

\* The scripts of up to MaxPages answers drawn from a set of answers.
Scripts(answers) == UNION {[1..n -> answers] : n \in 1..MaxPages}

\* A listing starts.  The provider's answers vary in what the lister reads:
\* the cursor for Aliyun and Xunlei, the reported total for UC.
ListInit ==
    /\ lister \in Listers
    /\ lscript \in Scripts(IF lister \in {"aliyun", "xunlei"} THEN PageAnswers
                           ELSE {a \in PageAnswers : ~a.cursor})
    /\ ltotal \in IF lister = "uc" THEN 0..(PageLimit * MaxPages) ELSE {0}
    /\ lreq = 0
    /\ lmerged = <<>>
    /\ lpc = "run"
    /\ lcode = 0

ListParked ==
    /\ lister = "none"
    /\ lscript = <<>>
    /\ ltotal = 0
    /\ lreq = 0
    /\ lmerged = <<>>
    /\ lpc = "parked"
    /\ lcode = 0


-----------------------------------------------------------------------------
(* AccountManager (adapter_factory.py lines 149-267): load_accounts builds  *)
(* the table of adapters from the "accounts" list of the configuration, and *)
(* get_adapter_for_task picks the adapter of a task.  Account names are     *)
(* numbers, 0 standing for an absent or empty name.  Every account has its  *)
(* own cookie, so the adapter create_adapter returns for the account in     *)
(* slot i is the cached object <<drive_type, i>>: it is the same object     *)
(* each time the account is loaded.  <<>> stands for None.                  *)

\* The configurations: every slot holds an account with its own name or the
\* name of the first account, a known or unknown drive type, and the flags
\* enabled and default.
RouterConfigs ==
    {cfg \in [1..AccountSlots -> [name : 1..AccountSlots, drive_type : DriveTypes,
                                  enabled : BOOLEAN, default : BOOLEAN]] :
        \A i \in 1..AccountSlots : cfg[i].name \in {i, 1}}

\* A task: its account_name and the drive type get_drive_type_by_url finds
\* for its shareurl ("nodrive": none that has an adapter).
Tasks == [account_name : 0..AccountSlots, provider : DriveTypes]

\* Mutant of Enabled: disabled accounts are loaded too.
EnabledAlways(account) == TRUE

\* adapter_factory.py line 171: account.get("enabled", True).
Enabled(account) == account.enabled

\* self.adapters[name] = adapter: a new name is added at the end, a name
\* already in the table keeps its place and gets the new adapter.
Put(adapters, name, adapter) ==
    IF \E k \in DOMAIN adapters : adapters[k].name = name
    THEN [k \in DOMAIN adapters |->
             IF adapters[k].name = name THEN [name |-> name, adapter |-> adapter]
             ELSE adapters[k]]
    ELSE Append(adapters, [name |-> name, adapter |-> adapter])

\* load_accounts lines 170-182: the loop over the accounts from slot i on.
\* create_adapter returns None for a drive type that is not in ADAPTER_MAP.
RECURSIVE LoadFrom(_, _, _)
LoadFrom(cfg, i, self) ==
    IF i > Len(cfg) THEN self
    ELSE LET account == cfg[i]
             adapter == IF account.drive_type \in ADAPTER_MAP
                        THEN <<account.drive_type, i>> ELSE <<>>
         IN  IF ~Enabled(account) \/ adapter = <<>> THEN LoadFrom(cfg, i + 1, self)
             ELSE LoadFrom(cfg, i + 1,
                      [adapters |-> Put(self.adapters, account.name, adapter),
                       default_adapter |->
                           IF account.default \/ self.default_adapter = <<>>
                           THEN adapter ELSE self.default_adapter])

\* load_accounts(config_data), lines 156-203: the table and the default are
\* cleared and rebuilt.
LoadAccounts(cfg) ==
    /\ rloads < MaxLoads
    /\ rloads' = rloads + 1
    /\ rconfig' = cfg
    /\ LET self == LoadFrom(cfg, 1, [adapters |-> <<>>, default_adapter |-> <<>>])
       IN  /\ radapters' = self.adapters
           /\ rdefault' = self.default_adapter
    /\ rtask' = <<>>
    /\ rresult' = <<>>
    /\ UNCHANGED <<ractive, routerFrame>>

\* The configurations load_accounts is given: any at first, later the one
\* loaded before with the enabled flag of one account changed.
NextConfigs ==
    IF rloads = 0 THEN RouterConfigs
    ELSE {[rconfig EXCEPT ![i].enabled = ~@] : i \in DOMAIN rconfig}

\* init_all_adapters, lines 254-267: init() is called on every adapter of
\* the table; the ones of `succeed` log in and set is_active.
InitAllAdapters(succeed) ==
    /\ succeed # {}
    /\ succeed \subseteq {radapters[k].adapter : k \in DOMAIN radapters}
    /\ ractive' = ractive \cup succeed
    /\ rtask' = <<>>
    /\ rresult' = <<>>
    /\ UNCHANGED <<rconfig, rloads, radapters, rdefault, routerFrame>>

\* Mutant of Named: the table is not asked for the name.
NamedNever(account_name) == {}

\* Line 224, self.adapters.get(account_name): the entries under the name.
Named(account_name) == {k \in DOMAIN radapters : radapters[k].name = account_name}

\* get_adapter_for_task(task), lines 213-240.
get_adapter_for_task(task) ==
    LET matching == {k \in DOMAIN radapters :
                        /\ radapters[k].adapter[1] = task.provider
                        /\ radapters[k].adapter \in ractive}
    IN  IF task.account_name # 0 /\ Named(task.account_name) # {}
        THEN radapters[CHOOSE k \in Named(task.account_name) : TRUE].adapter
        ELSE IF task.provider \in ADAPTER_MAP /\ matching # {}
        THEN radapters[CHOOSE k \in matching : \A j \in matching : k <= j].adapter
        ELSE rdefault

GetAdapterForTask(task) ==
    /\ rloads > 0
    /\ rtask' = <<task>>
    /\ rresult' = get_adapter_for_task(task)
    /\ UNCHANGED <<rconfig, rloads, radapters, rdefault, ractive, routerFrame>>

RouterNext ==
    \/ \E cfg \in NextConfigs : LoadAccounts(cfg)
    \/ \E succeed \in SUBSET {radapters[k].adapter : k \in DOMAIN radapters} :
           InitAllAdapters(succeed)
    \/ \E task \in Tasks : GetAdapterForTask(task)

\* AccountManager.__init__, lines 152-154.
RouterInit ==
    /\ rconfig = <<>>
    /\ rloads = 0
    /\ radapters = <<>>
    /\ rdefault = <<>>
    /\ ractive = {}
    /\ rtask = <<>>
    /\ rresult = <<>>

RouterParked == RouterInit


-----------------------------------------------------------------------------
(* Authenticated operations of one AliyunAdapter, called one after the      *)
(* other by thread 1: rename (one request) and get_fids (one _find_by_name  *)
(* request per path, every path one component long).  Each operation checks *)
(* the token first and every _request checks it again; the checks run the   *)
(* token lifecycle above.  The provider serves every request that is sent.  *)

Operations == {"rename", "get_fids"}

\* No operation has been called.
NoOperation ==
    [kind |-> "none", phase |-> "idle", left |-> 0, base |-> 0, prior |-> FALSE,
     failed |-> FALSE]

\* The thread enters _ensure_token_valid.
CallEnsure == apc' = [apc EXCEPT ![1] = "start"]

\* _ensure_token_valid has returned to the operation.
EnsureReturned == apc[1] = "done"

\* The operation returns to its caller.
OpReturn(failure) ==
    /\ op' = [op EXCEPT !.phase = "idle", !.left = 0, !.failed = failure]
    /\ oresult' = IF failure THEN "fail" ELSE "ok"
    /\ odone' = odone + 1

\* rename line 821, get_fids line 917: the operation is called and enters
\* its first statement, "if not self._ensure_token_valid()".
OpStart(kind, paths) ==
    /\ op.phase = "idle"
    /\ odone < MaxOps
    /\ EnsureReturned
    /\ op' = [kind |-> kind, phase |-> "precheck", left |-> paths, base |-> al_requests,
              prior |-> al_rejected > 0, failed |-> FALSE]
    /\ CallEnsure
    /\ UNCHANGED <<oresult, odone>>
    /\ UNCHANGED <<now, al_token, al_refresh_token, al_lock, al_requests, al_rejected,
                   al_expires_in, al_saved, aret, opFrame>>

\* rename lines 821-822, get_fids lines 917-918: the first check has
\* returned; the operation returns its failure value when it is False.
OpPrecheck ==
    /\ op.phase = "precheck"
    /\ EnsureReturned
    /\ IF aret[1]
       THEN /\ op' = [op EXCEPT !.phase = "ready"]
            /\ UNCHANGED <<oresult, odone>>
       ELSE OpReturn(TRUE)
    /\ UNCHANGED <<now, aliyunVars, opFrame>>

\* _request lines 280-281, reached from rename line 832 and, through
\* _find_by_name line 808, from get_fids line 933.
OpRequest ==
    /\ op.phase = "ready"
    /\ op' = [op EXCEPT !.phase = "request"]
    /\ CallEnsure
    /\ UNCHANGED <<oresult, odone>>
    /\ UNCHANGED <<now, al_token, al_refresh_token, al_lock, al_requests, al_rejected,
                   al_expires_in, al_saved, aret, opFrame>>

\* _request lines 281-282 and what its caller does next.  When the check is
\* False the exception ends rename (lines 842-844) with a failure; in
\* get_fids it is swallowed by _find_by_name (lines 816-817), the path is
\* left out of the results and the loop goes on to the next path.
OpResume ==
    /\ op.phase = "request"
    /\ EnsureReturned
    /\ LET failed == op.failed \/ ~aret[1]
       IN  IF op.left = 1 \/ (op.kind = "rename" /\ ~aret[1])
           THEN OpReturn(failed)
           ELSE /\ op' = [op EXCEPT !.phase = "ready", !.left = @ - 1, !.failed = failed]
                /\ UNCHANGED <<oresult, odone>>
    /\ UNCHANGED <<now, aliyunVars, opFrame>>

OpNext ==
    \/ \E paths \in 1..MaxSteps : OpStart("get_fids", paths)
    \/ OpStart("rename", 1)
    \/ OpPrecheck
    \/ OpRequest
    \/ OpResume

\* The adapter as the operations find it: built, with no token (the refresh
\* of the constructor failed) or with one that is valid for a minute more;
\* no thread inside _ensure_token_valid.
OpInit ==
    /\ al_token \in {NoToken, [expire_time |-> 60]}
    /\ al_refresh_token = "r0"
    /\ al_lock = None
    /\ al_requests = 0
    /\ al_rejected = 0
    /\ al_expires_in \in AliyunExpiresIn \ {AliyunMargin}
    /\ al_saved = <<>>
    /\ apc = [t \in Threads |-> "done"]
    /\ aret = [t \in Threads |-> FALSE]
    /\ op = NoOperation
    /\ oresult = "none"
    /\ odone = 0

OpParked ==
    /\ op = NoOperation
    /\ oresult = "none"
    /\ odone = 0

-----------------------------------------------------------------------------
(* XunleiAdapter._request, lines 281-298: the token check of lines 283-284  *)
(* is the call of _ensure_tokens_valid modelled above; a thread at "done"   *)
(* has returned from it.                                                    *)

\* Mutant of TokensValid: the result of the check is ignored.
TokensValidIgnored(t) == TRUE

\* _request, line 283: what _ensure_tokens_valid returned to this thread.
TokensValid(t) == xret[t]

\* _request, lines 283-294: the TokenInvalid result is returned, or the API
\* request is sent with the headers of the session.
XunleiRequest(t) ==
    /\ xpc[t] = "done"
    /\ xapi[t] = "none"
    /\ xapi' = [xapi EXCEPT ![t] = IF TokensValid(t) THEN "sent" ELSE "TokenInvalid"]
    /\ xpc' = [xpc EXCEPT ![t] = "returned"]
    /\ UNCHANGED <<xl_access_token, xl_access_token_expire, xl_captcha_token,
                   xl_captcha_token_expire, xl_refresh_token, xl_lock, xl_access_requests,
                   xl_captcha_requests, xl_rejected, xl_expires_in, xl_start, xl_saved, xlocal,
                   xret, xreqFrame>>

XunleiRequestNext == \E t \in Threads : XunleiRequest(t)

XreqInit == xapi = [t \in Threads |-> "none"]

XreqParked == XreqInit

-----------------------------------------------------------------------------
(* AccountManager, adapter_factory.py lines 149-211, with the adapters as   *)
(* the objects the factory constructs: load_accounts fills self.adapters    *)
(* through AdapterFactory.create_adapter; get_adapter and                   *)
(* get_default_adapter read it.  One caller; every call runs to its end.    *)

AccountNames == {"acctA", "acctB"}

\* The "accounts" lists given to load_accounts.
ManagerConfigs ==
    LET a == [name |-> "acctA", drive_type |-> "aliyun", cookie |-> "s1",
              enabled |-> TRUE, default |-> FALSE]
        b == [name |-> "acctB", drive_type |-> "xunlei", cookie |-> "s2",
              enabled |-> TRUE, default |-> TRUE]
        c == [name |-> "acctB", drive_type |-> "nodrive", cookie |-> "s2",
              enabled |-> TRUE, default |-> FALSE]
    IN  {<<a>>, <<b>>, <<a, b>>, <<[a EXCEPT !.enabled = FALSE], b>>, <<a, c>>}

\* load_accounts, lines 170-182: the loop over the accounts from the i-th
\* on.  `st` carries the cache and heap of the factory and the tables of the
\* manager; the constructors of the accounts in `failing` raise.
RECURSIVE ManagerLoadFrom(_, _, _, _)
ManagerLoadFrom(accounts, i, failing, st) ==
    IF i > Len(accounts) THEN st
    ELSE LET account == accounts[i]
             key == _make_cache_key(account.drive_type, account.cookie)
             known == account.drive_type \in ADAPTER_MAP
             cached == IF known THEN st.cache[key] ELSE None
             built == known /\ cached = None /\ i \notin failing
             adapter == IF ~known THEN None
                        ELSE IF cached # None THEN cached
                        ELSE IF i \in failing THEN None
                        ELSE Len(st.heap) + 1
             made == IF built
                     THEN [st EXCEPT !.cache[key] = adapter, !.heap = Append(@, key)]
                     ELSE st
         IN  ManagerLoadFrom(accounts, i + 1, failing,
                 IF ~account.enabled \/ adapter = None
                 THEN IF account.enabled THEN made ELSE st
                 ELSE [made EXCEPT !.handed[key] = @ \cup {adapter},
                                   !.adapters[account.name] = adapter,
                                   !.default = IF account.default \/ @ = None
                                               THEN adapter ELSE @])

\* AccountManager.load_accounts, lines 156-203, for a configuration in the
\* new format.
ManagerLoad(accounts, failing) ==
    /\ 1 \in callers
    /\ fpc[1] = "idle"
    /\ LET st == ManagerLoadFrom(accounts, 1, failing,
                     [cache |-> instance_cache, heap |-> heap, handed |-> handed,
                      adapters |-> [n \in AccountNames |-> None], default |-> None])
       IN  /\ Len(st.heap) <= MaxObjects
           /\ instance_cache' = st.cache
           /\ heap' = st.heap
           /\ handed' = st.handed
           /\ madapters' = st.adapters
           /\ mdefault' = st.default
    /\ UNCHANGED <<callers, fpc, fkey, fadapter, fcached, fret, stale, clears, mret, mgets>>
    /\ UNCHANGED mgrFrame

\* The manager hands `adapter` to the caller of `lookup`.
ManagerReturn(lookup, adapter) ==
    /\ mret' = [lookup |-> lookup, adapter |-> adapter]
    /\ mgets' = mgets + 1
    /\ UNCHANGED <<madapters, mdefault, factoryVars, mgrFrame>>

\* AccountManager.get_adapter, lines 205-207
get_adapter(name) ==
    /\ mgets < MaxGets
    /\ ManagerReturn("get_adapter", madapters[name])

\* AccountManager.get_default_adapter, lines 209-211
get_default_adapter ==
    /\ mgets < MaxGets
    /\ ManagerReturn("get_default_adapter", mdefault)

ManagerNext ==
    \/ \E accounts \in ManagerConfigs, failing \in SUBSET {1} : ManagerLoad(accounts, failing)
    \/ \E name \in AccountNames : get_adapter(name)
    \/ get_default_adapter

\* AccountManager.__init__, lines 152-154
ManagerInit ==
    /\ madapters = [n \in AccountNames |-> None]
    /\ mdefault = None
    /\ mret = [lookup |-> "none", adapter |-> None]
    /\ mgets = 0

MgrParked == ManagerInit

-----------------------------------------------------------------------------
(* Cached adapters that rotate their refresh token.  The configuration      *)
(* holds one account per provider; callers read its secret and ask the      *)
(* factory for the adapter, as get_account_by_name does (run.py lines       *)
(* 176-180).  An adapter whose refresh is answered with a new refresh_token *)
(* stores it in self._refresh_token and persists it (aliyun_adapter.py      *)
(* lines 238-248); the constructor of any new AliyunAdapter with a secret   *)
(* runs _init_token, one more refresh (lines 199-201).                      *)

\* The refresh token the provider issues in exchange for `secret`.
NewSecret(secret) == IF secret = "s1" THEN "s2" ELSE secret

\* run.py lines 176-180: the secret of the provider's account is read from
\* the configuration and handed to AdapterFactory.create_adapter.
CreateFromSecret(t, provider) ==
    /\ provider \in ADAPTER_MAP
    /\ CreateAdapterLookup(t, provider, csecret[provider])

\* _do_refresh_token lines 238-248 on the cached adapter of the provider's
\* account: the answer carries a new refresh_token, the adapter keeps it and
\* _save_refresh_token writes it to the configuration.  Neither touches
\* AdapterFactory._instance_cache.
RotateSecret(provider) ==
    LET key == _make_cache_key(provider, csecret[provider])
    IN  /\ instance_cache[key] # None
        /\ rotator[provider] = None
        /\ NewSecret(csecret[provider]) # csecret[provider]
        /\ \A t \in Threads : fpc[t] = "idle"
        /\ rotator' = [rotator EXCEPT ![provider] = instance_cache[key]]
        /\ csecret' = [csecret EXCEPT ![provider] = NewSecret(@)]
        /\ UNCHANGED <<now, factoryVars, aliyunVars, xunleiVars, persistVars, bfsVars, rotFrame>>

RotationNext ==
    \/ \E provider \in ADAPTER_MAP : CreateFromSecret(1, provider)
    \/ CreateAdapterConstruct(1)
    \/ CreateAdapterStore(1)
    \/ ClearCache(1)
    \/ \E provider \in ADAPTER_MAP : RotateSecret(provider)

RotInit ==
    /\ csecret = [p \in ADAPTER_MAP |-> "s1"]
    /\ rotator = [p \in ADAPTER_MAP |-> None]

RotParked == RotInit

-----------------------------------------------------------------------------
(* The configuration file written by two handlers: update() of the admin    *)
(* page (run.py lines 313-367) and save_config, the persistence hook of a   *)
(* token rotation (aliyun_adapter.py lines 63-102, xunlei_adapter.py lines  *)
(* 69-105).  Each reads the file, changes its copy and writes the copy      *)
(* back; they run on different threads and no lock spans read and write.    *)

\* The accounts lists the admin page posts: the list it was served, as it
\* is or with the cookie field of an account edited.
IncomingAccounts ==
    {InitConfig} \cup
    {[InitConfig EXCEPT ![i].cookie = <<"ui", i, 0>>] : i \in Accounts}

\* update(), lines 325-336: the accounts of the configuration read that are
\* protected, i.e. aliyun or xunlei accounts with a cookie.
Protected(current_accounts) ==
    {i \in 1..Len(current_accounts) :
        /\ current_accounts[i].drive_type \in {"aliyun", "xunlei"}
        /\ current_accounts[i].cookie # ""}

\* The protected entry of the configuration read that has the key
\* drive_type:name of the incoming account (the last one, as the dict of
\* lines 326-336 keeps the last), 0 when there is none.
ProtectedEntry(current_accounts, acc) ==
    LET same == {i \in Protected(current_accounts) :
                    /\ current_accounts[i].drive_type = acc.drive_type
                    /\ current_accounts[i].name = acc.name}
    IN  IF same = {} THEN 0 ELSE CHOOSE i \in same : \A j \in same : j <= i

\* update(), lines 339-350 and 352-354: the accounts written: the incoming
\* ones, with cookie and _token_updated_at of every protected account taken
\* from the configuration read.
ProtectedAccounts(current_accounts, incoming_accounts) ==
    [k \in 1..Len(incoming_accounts) |->
        LET acc == incoming_accounts[k]
            i == ProtectedEntry(current_accounts, acc)
        IN  IF acc.drive_type \in {"aliyun", "xunlei"} /\ i # 0
            THEN [acc EXCEPT !.cookie = current_accounts[i].cookie,
                             !.token_updated_at = current_accounts[i].token_updated_at]
            ELSE acc]

\* update(), line 318: config_data = Config.read_json(CONFIG_PATH)
UpdateRead(incoming_accounts) ==
    /\ updating.pc = "idle"
    /\ updating.writes < MaxUpdates
    /\ updating' = [updating EXCEPT !.pc = "read", !.read = config, !.incoming = incoming_accounts]
    /\ UNCHANGED <<config, sav, persisted, raceFrame>>

\* update(), lines 320-357: the protection of the token accounts, the merge
\* of the request into config_data and Config.write_json.
UpdateWrite ==
    /\ updating.pc = "read"
    /\ config' = ProtectedAccounts(updating.read, updating.incoming)
    /\ updating' = [updating EXCEPT !.pc = "idle", !.writes = @ + 1]
    /\ UNCHANGED <<sav, persisted, raceFrame>>

\* save_config, line 69: config = Config.read_json(config_path), called
\* with the secret the provider has just issued to the adapter of account i.
SaveRead(i) ==
    /\ sav.pc = "idle"
    /\ persisted[i] = <<>>
    /\ sav' = [pc |-> "read", read |-> config, account |-> i,
               token |-> RotationResult(i, now).refresh_token]
    /\ UNCHANGED <<config, updating, persisted, raceFrame>>

\* save_config, lines 74-94: the account's entry of the copy is updated and
\* the copy is written.
SaveWrite ==
    /\ sav.pc = "read"
    /\ config' = save_config(sav.read, sav.read[sav.account].drive_type, sav.token,
                             sav.read[sav.account].name, now)
    /\ persisted' = [persisted EXCEPT ![sav.account] = sav.token]
    /\ sav' = [sav EXCEPT !.pc = "idle"]
    /\ UNCHANGED <<updating, raceFrame>>

RaceNext ==
    \/ \E incoming_accounts \in IncomingAccounts : UpdateRead(incoming_accounts)
    \/ UpdateWrite
    \/ \E i \in Accounts : SaveRead(i)
    \/ SaveWrite

RaceInit ==
    /\ updating = [pc |-> "idle", read |-> <<>>, incoming |-> <<>>, writes |-> 0]
    /\ sav = [pc |-> "idle", read |-> <<>>, account |-> 0, token |-> <<>>]
    /\ persisted = [i \in Accounts |-> <<>>]

RaceParked == RaceInit

-----------------------------------------------------------------------------
(* The provider detection table, adapter_factory.py lines 33-41, 61-69 and  *)
(* 110-122.  A URL is the sequence of the labels of its host; a pattern is  *)
(* the set of label sequences its alternatives spell, and re.search finds   *)
(* it when one of them occurs in the URL.                                   *)

Urls ==
    {<<"www", "alipan", "com">>, <<"www", "aliyundrive", "com">>, <<"pan", "xunlei", "com">>,
     <<"share", "example", "org">>, <<"pan", "quark", "cn">>}

\* pan\.xunlei\.com and (?:alipan|aliyundrive)\.com of the table, and the
\* patterns handed to register_url_pattern.
XunleiPattern == {<<"pan", "xunlei", "com">>}
AliyunPattern == {<<"alipan", "com">>, <<"aliyundrive", "com">>}
RegisteredPatterns == {XunleiPattern, AliyunPattern, {<<"aliyundrive">>}, {<<"example", "org">>}}

\* The alternative occurs in the url from position k on.
OccursAt(alternative, url, k) ==
    /\ k + Len(alternative) - 1 <= Len(url)
    /\ \A j \in 1..Len(alternative) : url[k + j - 1] = alternative[j]

\* re.search(pattern, url)
re_search(pattern, url) ==
    \E alternative \in pattern : \E k \in 1..Len(url) : OccursAt(alternative, url, k)

\* get_drive_type_by_url, lines 119-122: the loop over URL_PATTERNS.items()
\* from the i-th entry on.
RECURSIVE DriveTypeFrom(_, _, _)
DriveTypeFrom(table, i, url) ==
    IF i > Len(table) THEN "None"
    ELSE IF re_search(table[i].pattern, url) THEN table[i].drive_type
    ELSE DriveTypeFrom(table, i + 1, url)

\* Mutant of get_drive_type_by_url: a URL that no pattern matches is given
\* the provider of the first entry of the table.
get_drive_type_by_url_default(url) ==
    LET found == DriveTypeFrom(URL_PATTERNS, 1, url)
    IN  IF found = "None" THEN URL_PATTERNS[1].drive_type ELSE found

\* AdapterFactory.get_drive_type_by_url; "None" stands for None.
get_drive_type_by_url(url) == DriveTypeFrom(URL_PATTERNS, 1, url)

\* cls.URL_PATTERNS[pattern] = drive_type on a dict: a key that is present
\* keeps its place and gets the new value, a new key goes to the end.
DictSet(table, pattern, drive_type) ==
    IF \E i \in 1..Len(table) : table[i].pattern = pattern
    THEN [i \in 1..Len(table) |->
             IF table[i].pattern = pattern
             THEN [table[i] EXCEPT !.drive_type = drive_type]
             ELSE table[i]]
    ELSE Append(table, [pattern |-> pattern, drive_type |-> drive_type])

\* AdapterFactory.register_url_pattern, lines 61-69
register_url_pattern(pattern, drive_type) ==
    /\ URL_PATTERNS' = DictSet(URL_PATTERNS, pattern, drive_type)
    /\ UNCHANGED <<uquery, urlFrame>>

\* A caller asks for the provider of a URL.
GetDriveTypeByUrl(url) ==
    /\ uquery' = [url |-> url, result |-> get_drive_type_by_url(url)]
    /\ UNCHANGED <<URL_PATTERNS, urlFrame>>

UrlNext ==
    \/ \E pattern \in RegisteredPatterns, drive_type \in DriveTypes :
          register_url_pattern(pattern, drive_type)
    \/ \E url \in Urls : GetDriveTypeByUrl(url)

\* The table as the class body defines it (the providers the model covers).
UrlInit ==
    /\ URL_PATTERNS = << [pattern |-> XunleiPattern, drive_type |-> "xunlei"],
                         [pattern |-> AliyunPattern, drive_type |-> "aliyun"] >>
    /\ uquery = [url |-> <<>>, result |-> "None"]

UrlParked == UrlInit

-----------------------------------------------------------------------------
(* AdapterFactory.create_adapter_by_url                                     *)

\* create_adapter_by_url, lines 137-141: a URL that no pattern matches
\* returns None; any other goes to create_adapter with the provider found.
CreateAdapterByUrl(t, url, cookie) ==
    LET drive_type == get_drive_type_by_url(url)
    IN  IF drive_type = "None"
        THEN /\ t \in callers
             /\ fpc[t] = "idle"
             /\ fret' = [fret EXCEPT ![t] = None]
             /\ UNCHANGED <<instance_cache, heap, callers, fpc, fkey, fadapter, fcached,
                            handed, stale, clears, factoryFrame>>
        ELSE CreateAdapterLookup(t, drive_type, cookie)

ByUrlNext ==
    \E t \in Threads, url \in Urls, cookie \in Cookies : CreateAdapterByUrl(t, url, cookie)

-----------------------------------------------------------------------------
(* The public operations of the adapters, as their caller sees them.        *)

AdapterKinds == {"aliyun", "baidu", "uc", "xunlei", "115"}

PublicOperations ==
    {"init", "get_stoken", "get_detail", "ls_dir", "save_file", "query_task",
     "mkdir", "rename", "delete", "get_fids"}

\* What the token refresh meets when an operation asks for valid tokens:
\* the tokens are valid (or the refresh succeeds), the provider answers
\* without an access token, or the HTTP call of the refresh raises.
TokenOutcomes == {"valid", "refresh_rejected", "refresh_timeout"}

\* What the request of the operation meets: a good answer, an error answer
\* of the provider, an answer that says the credential is not accepted, a
\* login page instead of JSON, an exception of the HTTP library, a body
\* that is not JSON.
RequestOutcomes == {"ok", "business", "auth_rejected", "login_page", "timeout", "malformed"}

\* The caller's three kinds of failure.
FailureClass(outcome) ==
    CASE outcome \in {"timeout", "malformed", "refresh_timeout"} -> "transport"
      [] outcome \in {"auth_rejected", "login_page", "refresh_rejected"} -> "auth"
      [] outcome = "business" -> "business"
      [] OTHER -> "none"

\* The operations that return a constant without any request.
NoRequest(adapter, operation) == adapter \in {"aliyun", "baidu", "115"} /\ operation = "query_task"

\* The operations that begin with _ensure_token_valid / _ensure_tokens_valid
\* (init calls the refresh itself), outside any try.
EnsuresFirst(adapter, operation) ==
    /\ adapter \in {"aliyun", "xunlei"}
    /\ operation \in {"init", "ls_dir", "save_file", "mkdir", "rename", "delete", "get_fids"}

\* _do_refresh_token (aliyun) and _refresh_access_token / _refresh_captcha_token
\* (xunlei) run inside try ... except Exception: return False.
EnsureRaises(adapter, outcome) == FALSE

\* Whether the request layer hands an exception to the body of the
\* operation: AliyunAdapter._request and BaiduAdapter._request log and
\* re-raise, and Baidu's _api_* helpers call resp.json() unguarded;
\* UCAdapter._send_request answers a made-up 500 response and _safe_json a
\* made-up dict; XunleiAdapter._request answers an error dict; the 115
\* operations call the session themselves and parse with _safe_json.
RequestRaises(adapter, outcome) ==
    CASE adapter = "aliyun" -> outcome = "timeout"
      [] adapter = "baidu" -> outcome \in {"timeout", "malformed", "login_page"}
      [] adapter = "115" -> outcome = "timeout"
      [] OTHER -> FALSE

\* Mutant of OperationCatches: no operation has an except clause.
OperationCatchesNothing(adapter, operation) == FALSE

\* Whether an exception raised under the operation is caught before it
\* reaches the caller: every request of every operation is made inside
\* try ... except Exception (in the operation, or in _find_by_name for
\* AliyunAdapter.get_fids).
OperationCatches(adapter, operation) == TRUE

\* The adapters whose ls_dir result the model follows field by field.
LsDirAdapters == {"aliyun", "xunlei", "115"}

\* AliyunAdapter._get_error_message: ERROR_CODES.get(code, "unknown (code)").
AliyunErrorMessage(code) ==
    CASE code = "NotFound.File" -> "file does not exist"
      [] code = "AccessTokenInvalid" -> "access token invalid, log in again"
      [] code = "ParseError" -> "unknown error (ParseError)"
      [] OTHER -> "unknown error"

\* str(e) of the exception the HTTP library or the JSON parser raised.
ExceptionText(outcome) ==
    IF outcome = "timeout" THEN "Read timed out" ELSE "Expecting value: line 1 column 1"

\* The "message" of a failed ls_dir.
LsDirMessage(adapter, outcome) ==
    CASE outcome \in {"refresh_rejected", "refresh_timeout"} -> "Token invalid"
      [] adapter = "aliyun" /\ outcome = "timeout" -> ExceptionText(outcome)
      [] adapter = "aliyun" /\ outcome \in {"malformed", "login_page"} ->
            AliyunErrorMessage("ParseError")
      [] adapter = "aliyun" /\ outcome = "business" -> AliyunErrorMessage("NotFound.File")
      [] adapter = "aliyun" /\ outcome = "auth_rejected" ->
            AliyunErrorMessage("AccessTokenInvalid")
      [] adapter = "xunlei" /\ outcome \in {"timeout", "malformed", "login_page"} ->
            ExceptionText(outcome)
      [] adapter = "xunlei" /\ outcome = "business" -> "provider: resource not found"
      [] adapter = "xunlei" /\ outcome = "auth_rejected" -> "provider: unauthenticated"
      [] adapter = "115" /\ outcome = "timeout" -> "list failed: Read timed out"
      [] adapter = "115" /\ outcome \in {"malformed", "login_page"} ->
            "response parse failed, cookie may be invalid or rate limited"
      [] adapter = "115" /\ outcome = "business" -> "provider: directory does not exist"
      [] adapter = "115" /\ outcome = "auth_rejected" -> "provider: please log in"
      [] OTHER -> "success"

\* The dict ls_dir returns: {"code": ..., "message": ..., "data": {"list": ...}};
\* listed is whether data.list carries the entries of the directory.
ls_dir_result(adapter, outcome) ==
    [code |-> IF outcome \in {"ok", "valid"} THEN 0 ELSE 1,
     message |-> LsDirMessage(adapter, outcome),
     listed |-> outcome \in {"ok", "valid"}]

\* A returned value whose fields the model does not follow.
SomeValue == [code |-> -1, message |-> "", listed |-> FALSE]

\* Nothing has been returned.
NoValue == [code |-> -1, message |-> "no value", listed |-> FALSE]

ResultOf(adapter, operation, outcome) ==
    IF operation = "ls_dir" /\ adapter \in LsDirAdapters
    THEN ls_dir_result(adapter, outcome)
    ELSE SomeValue

\* The caller calls an operation of an adapter.
CallOperation(adapter, operation) ==
    /\ call.pc \in {"idle", "returned"}
    /\ call' = IF NoRequest(adapter, operation)
               THEN [adapter |-> adapter, op |-> operation, pc |-> "returned", outcome |-> "ok",
                     result |-> SomeValue]
               ELSE [adapter |-> adapter, op |-> operation,
                     pc |-> IF EnsuresFirst(adapter, operation) THEN "ensure" ELSE "request",
                     outcome |-> "ok", result |-> NoValue]
    /\ UNCHANGED callFrame

\* The operation asks for valid tokens: a failed refresh makes it return its
\* failure value (False, [] or {"code": 1, "message": "Token invalid"}).
CallEnsureTokens(outcome) ==
    /\ call.pc = "ensure"
    /\ call' = IF EnsureRaises(call.adapter, outcome)
               THEN [call EXCEPT !.pc = "raised", !.outcome = outcome]
               ELSE IF outcome = "valid"
               THEN [call EXCEPT !.pc = IF call.op = "init" THEN "returned" ELSE "request",
                                 !.result = IF call.op = "init" THEN SomeValue ELSE NoValue]
               ELSE [call EXCEPT !.pc = "returned", !.outcome = outcome,
                                 !.result = ResultOf(call.adapter, call.op, outcome)]
    /\ UNCHANGED callFrame

\* The operation sends its request and reads the answer.
CallSendRequest(outcome) ==
    /\ call.pc = "request"
    /\ call' = IF RequestRaises(call.adapter, outcome)
               THEN [call EXCEPT !.pc = "raising", !.outcome = outcome]
               ELSE [call EXCEPT !.pc = "returned", !.outcome = outcome,
                                 !.result = ResultOf(call.adapter, call.op, outcome)]
    /\ UNCHANGED callFrame

\* An exception leaves the request layer: the except clause of the
\* operation turns it into the failure value, or it reaches the caller.
CallUnwind ==
    /\ call.pc = "raising"
    /\ call' = IF OperationCatches(call.adapter, call.op)
               THEN [call EXCEPT !.pc = "returned",
                                 !.result = ResultOf(call.adapter, call.op, call.outcome)]
               ELSE [call EXCEPT !.pc = "raised"]
    /\ UNCHANGED callFrame

CallNext ==
    \/ \E adapter \in AdapterKinds, operation \in PublicOperations : CallOperation(adapter, operation)
    \/ \E outcome \in TokenOutcomes : CallEnsureTokens(outcome)
    \/ \E outcome \in RequestOutcomes : CallSendRequest(outcome)
    \/ CallUnwind

CallInit ==
    call = [adapter |-> "aliyun", op |-> "init", pc |-> "idle", outcome |-> "ok",
            result |-> NoValue]

CallParked == CallInit

-----------------------------------------------------------------------------
(* save_file: the batch transfer of AliyunAdapter and BaiduAdapter.         *)

\* The files of the share that a batch can name.
Items == 1..MaxItems

\* fid_token_list: the requested items, each once, in the caller's order.
RequestLists ==
    {s \in UNION {[1..n -> Items] : n \in 1..MaxItems} :
        \A i, j \in 1..Len(s) : i # j => s[i] # s[j]}

\* The file name of an item: items 2k-1 and 2k differ by one character that
\* is neither a word character, nor white space, nor a dot.
ItemName(item) == [stem |-> (item + 1) \div 2, marked |-> item % 2 = 0]

\* re.sub(r'[^\w\s\.]', '', name)
CleanName(name) == [name EXCEPT !.marked = FALSE]

\* The file id the provider gives the copy of an item.
NewFid(item) == 10 + item

\* The "" that stands for an item without a new file id.
NoFid == 0

\* The errno of a transfer the provider reports as failed.
TransferErrno == 12

\* AliyunAdapter.save_file, lines 702-711: one entry per element of
\* data["responses"], which the batch endpoint gives per request, in order.
RECURSIVE AliyunSavedFids(_, _)
AliyunSavedFids(items, saved) ==
    IF items = <<>> THEN <<>>
    ELSE <<IF Head(items) \in saved THEN NewFid(Head(items)) ELSE NoFid>>
            \o AliyunSavedFids(Tail(items), saved)

\* BaiduAdapter.save_file, lines 927-936: the items of the target directory
\* that were not there before the transfer, in the order of the listing.
RECURSIVE NewItemsFrom(_, _)
NewItemsFrom(item, saved) ==
    IF item > MaxItems THEN <<>>
    ELSE (IF item \in saved THEN <<item>> ELSE <<>>) \o NewItemsFrom(item + 1, saved)

\* lines 948-953: the first new item whose cleaned name equals the cleaned
\* name asked for, NoFid when there is none.
RECURSIVE FuzzyFid(_, _)
FuzzyFid(fname, new_items) ==
    IF new_items = <<>> THEN NoFid
    ELSE IF CleanName(ItemName(Head(new_items))) = CleanName(fname)
         THEN NewFid(Head(new_items))
         ELSE FuzzyFid(fname, Tail(new_items))

\* lines 942-957: name_to_new_fid.get(fname), then the match on cleaned names.
FidForName(fname, new_items) ==
    IF \E k \in 1..Len(new_items) : ItemName(new_items[k]) = fname
    THEN NewFid(CHOOSE item \in Items : ItemName(item) = fname)
    ELSE FuzzyFid(fname, new_items)

\* lines 939-960: save_as_top_fids by file_names when they are given, else
\* the ids of the new items.
BaiduSavedFids(items, names_given, saved) ==
    LET new_items == NewItemsFrom(1, saved)
    IN  IF names_given
        THEN [k \in 1..Len(items) |-> FidForName(ItemName(items[k]), new_items)]
        ELSE [k \in 1..Len(new_items) |-> NewFid(new_items[k])]

\* _api_transfer_shared_paths, lines 506-508: the errno of the first entry
\* of info["info"] replaces the errno of the answer when it is not 0.
BaiduErrno(items, saved, errno) ==
    IF Head(items) \notin saved THEN TransferErrno ELSE errno

\* The caller calls save_file with file ids and, or not, their file names.
SaveFileCall(adapter, items, names_given) ==
    /\ batch.pc \in {"idle", "returned"}
    /\ batch' = [adapter |-> adapter, items |-> items, names_given |-> names_given,
                 pc |-> "sent", saved |-> {}, code |-> 0, listed |-> FALSE, fids |-> <<>>]
    /\ UNCHANGED batchFrame

\* The provider copies the items of `saved`, fails the others, and answers;
\* save_file builds its result (AliyunAdapter lines 693-721, BaiduAdapter
\* lines 922-976).
SaveFileReturn(saved, errno) ==
    /\ batch.pc = "sent"
    /\ saved \subseteq {batch.items[k] : k \in 1..Len(batch.items)}
    /\ batch' =
         IF batch.adapter = "aliyun"
         THEN [batch EXCEPT !.pc = "returned", !.saved = saved, !.code = 0,
                            !.listed = TRUE,
                            !.fids = AliyunSavedFids(batch.items, saved)]
         ELSE LET result_errno == BaiduErrno(batch.items, saved, errno)
              IN  IF result_errno = 0
                  THEN [batch EXCEPT !.pc = "returned", !.saved = saved, !.code = 0,
                                     !.listed = TRUE,
                                     !.fids = BaiduSavedFids(batch.items, batch.names_given, saved)]
                  ELSE [batch EXCEPT !.pc = "returned", !.saved = saved,
                                     !.code = result_errno, !.listed = FALSE,
                                     !.fids = <<>>]
    /\ UNCHANGED batchFrame

BatchNext ==
    \/ \E adapter \in {"aliyun", "baidu"}, items \in RequestLists, names_given \in BOOLEAN :
          SaveFileCall(adapter, items, names_given)
    \/ \E saved \in SUBSET Items, errno \in {0, TransferErrno} : SaveFileReturn(saved, errno)

BatchInit ==
    batch = [adapter |-> "aliyun", items |-> <<>>, names_given |-> FALSE, pc |-> "idle",
             saved |-> {}, code |-> 0, listed |-> FALSE, fids |-> <<>>]

BatchParked == BatchInit

-----------------------------------------------------------------------------
(* query_task: polling the state of a transfer (UCAdapter, XunleiAdapter).  *)

\* What one status request meets: the task is waiting or running, it is
\* done, it failed, the provider answers an error (for UC a status other
\* than 200), UC reports the capacity limit, or the request raises.
PollAnswers == {"pending", "running", "done", "failed", "error", "capacity", "exception"}

InProgress == {"pending", "running"}

\* data.status of the provider's answer: 0 waiting, 1 running, 2 done, -1 failed.
TaskStatus(answer) ==
    CASE answer = "pending" -> 0
      [] answer = "running" -> 1
      [] answer = "done" -> 2
      [] OTHER -> -1

\* UCAdapter.query_task, line 266: the value of `result` before the loop.
UCTimeout == [status |-> 500, code |-> 1, task_status |-> 0, message |-> "task query timed out"]

\* XunleiAdapter.query_task, lines 650-655: the value returned after the loop.
XunleiTimeout == [status |-> 500, code |-> 1, task_status |-> 0, message |-> "task query timed out"]

\* The provider's answer as _safe_json hands it to UCAdapter.query_task.
UCProviderResult(answer) ==
    IF answer = "error"
    THEN [status |-> 400, code |-> 1, task_status |-> 0, message |-> "provider error"]
    ELSE [status |-> 200, code |-> 0, task_status |-> TaskStatus(answer),
          message |-> "provider answer"]

\* What an answer makes XunleiAdapter.query_task return (lines 597-637).
XunleiResult(answer) ==
    CASE answer = "done" ->
            [status |-> 200, code |-> 0, task_status |-> 2, message |-> "success"]
      [] answer = "failed" ->
            [status |-> 500, code |-> 1, task_status |-> -1, message |-> "task failed"]
      [] OTHER ->
            [status |-> 500, code |-> 1, task_status |-> 0, message |-> "request error"]

\* The caller calls query_task: retry_index = 0, and for UC `result` is the
\* timeout value.
QueryTask(adapter) ==
    /\ poll.pc \in {"idle", "returned"}
    /\ poll' = [adapter |-> adapter, pc |-> "loop", retry_index |-> 0, seen |-> <<>>,
                result |-> IF adapter = "uc" THEN UCTimeout ELSE XunleiTimeout]
    /\ UNCHANGED pollFrame

\* One round of the while loop: a status request and what follows from its answer.
PollOnce(answer) ==
    /\ poll.pc = "loop"
    /\ poll.retry_index < max_retries
    /\ poll.adapter = "xunlei" => answer # "capacity"
    /\ LET seen == Append(poll.seen, answer)
       IN  poll' =
             IF answer \in InProgress
             THEN [poll EXCEPT !.retry_index = @ + 1, !.seen = seen,
                               !.result = IF poll.adapter = "uc"
                                          THEN UCProviderResult(answer) ELSE @]
             ELSE IF poll.adapter = "uc"
             THEN [poll EXCEPT !.pc = "returned", !.seen = seen,
                     !.result =
                        CASE answer = "capacity" ->
                                [status |-> 400, code |-> 1, task_status |-> -1,
                                 message |-> "capacity limit"]
                          [] answer = "exception" ->
                                [status |-> 500, code |-> 1, task_status |-> 0,
                                 message |-> "task query failed"]
                          [] OTHER -> UCProviderResult(answer)]
             ELSE [poll EXCEPT !.pc = "returned", !.seen = seen,
                               !.result = XunleiResult(answer)]
    /\ UNCHANGED pollFrame

\* The loop ends because retry_index reached max_retries: UC returns
\* `result` (line 318), Xunlei the timeout value (lines 650-655).
PollGiveUp ==
    /\ poll.pc = "loop"
    /\ poll.retry_index >= max_retries
    /\ poll' = [poll EXCEPT !.pc = "returned",
                            !.result = IF poll.adapter = "uc" THEN @ ELSE XunleiTimeout]
    /\ UNCHANGED pollFrame

PollNext ==
    \/ \E adapter \in {"uc", "xunlei"} : QueryTask(adapter)
    \/ \E answer \in PollAnswers : PollOnce(answer)
    \/ PollGiveUp

PollInit ==
    poll = [adapter |-> "uc", pc |-> "idle", retry_index |-> 0, seen |-> <<>>,
            result |-> UCTimeout]

PollParked == PollInit

-----------------------------------------------------------------------------
(* Paginated listings against a provider that never runs out of answers:    *)
(* after the last answer of its script it starts again with the first.      *)

\* The part of the gathered list the model keeps: no loop of the listers
\* below reads the list it has gathered.
Kept(list) ==
    IF Len(list) <= PageLimit * MaxPages THEN list
    ELSE SubSeq(list, 1, PageLimit * MaxPages)

\* One round of "while True" of Cloud115Adapter.ls_dir (lines 306-348), of
\* AliyunAdapter.ls_dir (lines 592-619) or of XunleiAdapter.ls_dir (lines
\* 482-510); lreq is the place in the provider's script of the answer given.
RepeatListPage ==
    /\ lister \in {"115", "aliyun", "xunlei"}
    /\ lpc = "run"
    /\ LET r == (lreq % Len(lscript)) + 1
           data == lscript[r]
           items == [j \in 1..data.size |-> <<r, j>>]
           again == IF lister = "115"
                    THEN items # <<>> /\ ~ShortPage(items)
                    ELSE data.cursor
       IN  /\ lreq' = r
           /\ IF ~data.ok THEN ListReturn(1, <<>>)
              ELSE IF again
              THEN /\ lmerged' = Kept(lmerged \o items)
                   /\ UNCHANGED <<lpc, lcode>>
              ELSE ListReturn(0, Kept(lmerged \o items))
    /\ UNCHANGED <<lister, lscript, ltotal, listFrame>>

\* A listing starts against a provider whose script has at least two answers.
RepeatListInit ==
    /\ lister \in {"115", "aliyun", "xunlei"}
    /\ lscript \in {s \in Scripts(IF lister = "115" THEN {a \in PageAnswers : ~a.cursor}
                                  ELSE PageAnswers) : Len(s) >= 2}
    /\ ltotal = 0
    /\ lreq = 0
    /\ lmerged = <<>>
    /\ lpc = "run"
    /\ lcode = 0

-----------------------------------------------------------------------------
(* mkdir(dir_path) of AliyunAdapter (lines 735-798) and XunleiAdapter       *)
(* (lines 657-704) on a path whose every component exists as a folder.      *)

\* Where the provider lists the existing folder of a component among the
\* entries of its parent: within the first `limit` (100) entries, the ones
\* _find_by_name reads, or beyond them.
Positions == {"listed", "beyond"}

\* The paths of one or two components.
Paths == [1..1 -> Positions] \cup [1..2 -> Positions]

\* mkdir is called at most this many times on the path.
MaxMkdirs == 2

\* created_id before the loop (None).
NoFolder == -1

\* The id of the existing folder of component i, and the id of the n-th
\* folder the provider creates.
ExistingId(i) == i
NewId(n) == 10 + n

\* _find_by_name (aliyun_adapter.py lines 800-817, xunlei_adapter.py lines
\* 706-722): one request with limit 100 and no second page; the folder is
\* found when it is among the entries of that answer.
find_by_name(i) == mkd.on_path /\ mkd.path[i] = "listed"

\* The loop goes on with the next component under parent `id`, or the path
\* is done and mkdir returns code 0 with created_id.
NextComponent(id, made) ==
    mkd' = IF mkd.i = Len(mkd.path)
           THEN [mkd EXCEPT !.pc = "returned", !.code = 0, !.fid = id,
                            !.created = @ + made, !.on_path = @ /\ made = 0]
           ELSE [mkd EXCEPT !.pc = "find", !.i = @ + 1, !.fid = id,
                            !.created = @ + made, !.on_path = @ /\ made = 0]

\* mkdir is called (for the second time: again with the same path).
Mkdir ==
    /\ mkd.pc \in {"idle", "returned"}
    /\ mkd.calls < MaxMkdirs
    /\ mkd' = [mkd EXCEPT !.pc = "find", !.i = 1, !.on_path = TRUE, !.code = -1,
                          !.fid = NoFolder, !.calls = @ + 1]
    /\ UNCHANGED mkdirFrame

\* "existing = self._find_by_name(...)": a folder that is found becomes the
\* parent; otherwise the create request follows.
MkdirFind ==
    /\ mkd.pc = "find"
    /\ IF find_by_name(mkd.i)
       THEN NextComponent(ExistingId(mkd.i), 0)
       ELSE mkd' = [mkd EXCEPT !.pc = "create"]
    /\ UNCHANGED mkdirFrame

\* The create request.  Aliyun sends check_name_mode "refuse": the provider
\* answers AlreadyExist.File for a name the parent holds.  Xunlei sends the
\* name only: the provider makes a folder or answers an error.
MkdirCreate(answer) ==
    /\ mkd.pc = "create"
    /\ CASE mkd.adapter = "aliyun" /\ mkd.on_path ->
              /\ answer = "exists"
              /\ mkd' = [mkd EXCEPT !.pc = "find_again"]
         [] mkd.adapter = "aliyun" /\ ~mkd.on_path ->
              /\ answer = "created"
              /\ NextComponent(NewId(mkd.created + 1), 1)
         [] OTHER ->
              /\ answer \in {"created", "error"}
              /\ IF answer = "created"
                 THEN NextComponent(NewId(mkd.created + 1), 1)
                 ELSE mkd' = [mkd EXCEPT !.pc = "returned", !.code = 1, !.fid = NoFolder]
    /\ UNCHANGED mkdirFrame

\* AliyunAdapter.mkdir, lines 772-785: after AlreadyExist.File the folder is
\* looked up again; when it is not found the error is returned.
MkdirFindAgain ==
    /\ mkd.pc = "find_again"
    /\ IF find_by_name(mkd.i)
       THEN NextComponent(ExistingId(mkd.i), 0)
       ELSE mkd' = [mkd EXCEPT !.pc = "returned", !.code = 1, !.fid = NoFolder]
    /\ UNCHANGED mkdirFrame

MkdirNext ==
    \/ Mkdir
    \/ MkdirFind
    \/ \E answer \in {"exists", "created", "error"} : MkdirCreate(answer)
    \/ MkdirFindAgain

MkdirInit ==
    mkd \in [adapter : {"aliyun", "xunlei"}, path : Paths, i : {1}, pc : {"idle"},
             on_path : {TRUE}, created : {0}, code : {-1}, fid : {NoFolder},
             calls : {0}]

MkdirParked ==
    mkd = [adapter |-> "aliyun", path |-> <<"listed">>, i |-> 1, pc |-> "idle",
           on_path |-> TRUE, created |-> 0, code |-> -1, fid |-> NoFolder, calls |-> 0]

-----------------------------------------------------------------------------
(* save_file with file_names of Cloud115Adapter (lines 386-394, 446-484)    *)
(* and BaiduAdapter (lines 896-903, 926-964): the target directory is       *)
(* listed before and after the transfer, and the new file ids are found by  *)
(* name among the entries that the first listing did not hold.              *)

\* The file id of the file that carried the name of `item` in the target
\* directory before the transfer.
OldFid(item) == 20 + item

\* An entry of a listing of the target directory: a file with the name of
\* `item`, there before the transfer (old) or made by it.
EntryFid(entry) == IF entry.old THEN OldFid(entry.item) ELSE NewFid(entry.item)

\* The entries of item, item + 1, ... for the files `held`.
RECURSIVE EntriesFrom(_, _, _)
EntriesFrom(item, held, old) ==
    IF item > MaxItems THEN <<>>
    ELSE (IF item \in held THEN <<[item |-> item, old |-> old]>> ELSE <<>>)
            \o EntriesFrom(item + 1, held, old)

\* The listing after the transfer, in one of the orders the provider may use.
AfterListing(prior, saved, old_first) ==
    IF old_first
    THEN EntriesFrom(1, prior, TRUE) \o EntriesFrom(1, saved, FALSE)
    ELSE EntriesFrom(1, saved, FALSE) \o EntriesFrom(1, prior, TRUE)

\* "if fid and fid not in before_items": before_items holds the file ids of
\* the first listing, and nothing when that listing failed.
NotInBefore(listing, before_ok) ==
    SelectSeq(listing, LAMBDA entry : ~entry.old \/ ~before_ok)

\* name_to_new_fid[fname] after the loop over the listing: the file id of the
\* last entry of that name, NoFid when there is none.
RECURSIVE name_to_new_fid(_, _)
name_to_new_fid(fname, entries) ==
    IF entries = <<>> THEN NoFid
    ELSE LET later == name_to_new_fid(fname, Tail(entries))
         IN  IF later # NoFid THEN later
             ELSE IF ItemName(Head(entries).item) = fname THEN EntryFid(Head(entries))
             ELSE NoFid

\* The loop over name_to_new_fid.items(): the value of the first key whose
\* cleaned name equals the cleaned name asked for.
RECURSIVE FuzzyMatch(_, _, _)
FuzzyMatch(fname, keys, entries) ==
    IF keys = <<>> THEN NoFid
    ELSE IF CleanName(ItemName(Head(keys).item)) = CleanName(fname)
         THEN name_to_new_fid(ItemName(Head(keys).item), entries)
         ELSE FuzzyMatch(fname, Tail(keys), entries)

\* One entry of save_as_top_fids: the exact name first, then the cleaned one.
SavedFidFor(fname, entries) ==
    IF name_to_new_fid(fname, entries) # NoFid
    THEN name_to_new_fid(fname, entries)
    ELSE FuzzyMatch(fname, entries, entries)

\* save_file(..., file_names) is called; the target directory holds files
\* with the names of `prior`.
NamedSaveCall(names, prior) ==
    /\ named.pc \in {"idle", "returned"}
    /\ named' = [pc |-> "before", names |-> names, prior |-> prior, before_ok |-> FALSE,
                 saved |-> {}, code |-> 0, fids |-> <<>>]
    /\ UNCHANGED namedFrame

\* The listing before the transfer: a failure leaves before_items empty.
NamedListBefore(ok) ==
    /\ named.pc = "before"
    /\ named' = [named EXCEPT !.pc = "transfer", !.before_ok = ok]
    /\ UNCHANGED namedFrame

\* The transfer: the provider copies the items of `saved`; a transfer that
\* the provider reports as failed ends save_file with its error and no ids.
NamedTransfer(saved, ok) ==
    /\ named.pc = "transfer"
    /\ saved \subseteq {named.names[k] : k \in 1..Len(named.names)}
    /\ named' = IF ok
                THEN [named EXCEPT !.pc = "after", !.saved = saved]
                ELSE [named EXCEPT !.pc = "returned", !.saved = saved,
                                   !.code = TransferErrno, !.fids = <<>>]
    /\ UNCHANGED namedFrame

\* The listing after the transfer and the assembly of save_as_top_fids; a
\* failed listing leaves name_to_new_fid empty.
NamedListAfter(ok, old_first) ==
    /\ named.pc = "after"
    /\ LET entries == IF ok
                      THEN NotInBefore(AfterListing(named.prior, named.saved, old_first),
                                       named.before_ok)
                      ELSE <<>>
       IN  named' = [named EXCEPT
                       !.pc = "returned", !.code = 0,
                       !.fids = [k \in 1..Len(named.names) |->
                                    SavedFidFor(ItemName(named.names[k]), entries)]]
    /\ UNCHANGED namedFrame

NamedNext ==
    \/ \E names \in RequestLists, prior \in SUBSET Items : NamedSaveCall(names, prior)
    \/ \E ok \in BOOLEAN : NamedListBefore(ok)
    \/ \E saved \in SUBSET Items, ok \in BOOLEAN : NamedTransfer(saved, ok)
    \/ \E ok \in BOOLEAN, old_first \in BOOLEAN : NamedListAfter(ok, old_first)

NamedInit ==
    named = [pc |-> "idle", names |-> <<>>, prior |-> {}, before_ok |-> FALSE,
             saved |-> {}, code |-> 0, fids |-> <<>>]

NamedParked == NamedInit

-----------------------------------------------------------------------------
(* init_all_adapters (adapter_factory.py lines 254-267) with the outcome of *)
(* each init() kept: init() sets is_active on success (aliyun_adapter.py    *)
(* line 325, cloud115_adapter.py line 105, xunlei_adapter.py line 357,      *)
(* baidu_adapter.py line 282, uc_adapter.py line 78) and returns False      *)
(* otherwise; no statement of the adapters sets is_active to False.         *)

\* The adapters of the table, on each of which init() is called.
TableAdapters == {radapters[k].adapter : k \in DOMAIN radapters}

\* init_all_adapters: the adapters of `succeed` log in, the others do not.
InitAllOutcomes(succeed) ==
    /\ TableAdapters # {}
    /\ succeed \subseteq TableAdapters
    /\ ractive' = ractive \cup succeed
    /\ rfailed' = (rfailed \ succeed) \cup (TableAdapters \ succeed)
    /\ rtask' = <<>>
    /\ rresult' = <<>>
    /\ UNCHANGED <<rconfig, rloads, radapters, rdefault, authFrame>>

AuthNext ==
    \/ \E cfg \in NextConfigs : LoadAccounts(cfg)
    \/ \E succeed \in SUBSET TableAdapters : InitAllOutcomes(succeed)
    \/ \E task \in Tasks : GetAdapterForTask(task)

AuthInit == rfailed = {}

AuthParked == AuthInit

-----------------------------------------------------------------------------
(* BaiduAdapter._resolve_fid_to_path (lines 334-380) and its callers ls_dir *)
(* (lines 829-843) and save_file (lines 888-924).  The drive is a chain of  *)
(* directories: the root holds directory 1, directory k holds directory     *)
(* k + 1.  A directory's path stands for itself; RootPath is "/".           *)

\* "max_depth = 10" of _resolve_fid_to_path (line 355).
resolve_max_depth == 10

\* The longest chain of directories a drive holds.
MaxChain == 11

RootPath == 0

\* The fs_ids asked for: the directories of the longest chain and one id
\* that no drive holds.
FsIds == 1..(MaxChain + 1)

\* The entries _api_list returns for the directory at `level` of the chain.
ListedAt(level) == IF level < fres.chain THEN {level + 1} ELSE {}

\* ls_dir(pdir_fid) or save_file(..., to_pdir_fid, ...) is called with a
\* numeric fs_id: dirs_to_search = ["/"].
ResolveCall(operation, fid, chain) ==
    /\ fres.pc \in {"idle", "returned"}
    /\ fres' = [operation |-> operation, fid |-> fid, chain |-> chain, level |-> 0,
                pc |-> "search", path |-> RootPath, code |-> -1]
    /\ UNCHANGED fresFrame

\* One round of "for _ in range(max_depth)": the directories of the level
\* are listed; the path of the entry with the fs_id is returned; the loop
\* ends when no directory is left or after max_depth rounds, and then "/"
\* is returned (line 380).
ResolveLevel ==
    /\ fres.pc = "search"
    /\ LET items == ListedAt(fres.level)
       IN  fres' = IF fres.fid \in items
                   THEN [fres EXCEPT !.pc = "resolved", !.path = fres.fid]
                   ELSE IF items = {} \/ fres.level + 1 = resolve_max_depth
                   THEN [fres EXCEPT !.pc = "resolved", !.path = RootPath]
                   ELSE [fres EXCEPT !.level = @ + 1]
    /\ UNCHANGED fresFrame

\* ls_dir lists remote_path (lines 836-837) and save_file transfers into
\* remote_dir (lines 893, 922-924): the provider serves the path it is given.
ResolvedUse ==
    /\ fres.pc = "resolved"
    /\ fres' = [fres EXCEPT !.pc = "returned", !.code = 0]
    /\ UNCHANGED fresFrame

FresNext ==
    \/ \E operation \in {"ls_dir", "save_file"}, fid \in FsIds, chain \in 1..MaxChain :
          ResolveCall(operation, fid, chain)
    \/ ResolveLevel
    \/ ResolvedUse

FresInit ==
    fres = [operation |-> "ls_dir", fid |-> 1, chain |-> 1, level |-> 0, pc |-> "idle",
            path |-> RootPath, code |-> -1]

FresParked == FresInit

-----------------------------------------------------------------------------
(* Specifications.                                                          *)

\* The subsystems declared after the core ones, at rest.
ExtParked == ListParked /\ RouterParked /\ OpParked /\ XreqParked /\ MgrParked /\ RotParked /\ RaceParked /\ UrlParked /\ CallParked /\ BatchParked /\ PollParked /\ MkdirParked /\ NamedParked /\ AuthParked /\ FresParked

\* One caller: every create_adapter call runs to its return before the next call.
FactorySeqInit ==
    FactoryInit({1}) /\ ClockParked /\ AliyunParked /\ XunleiParked /\ PersistInit /\ BfsParked /\ ExtParked

FactorySeqSpec == FactorySeqInit /\ [][FactoryNext]_vars

\* Several threads call the factory; their steps interleave.
FactoryConcInit ==
    FactoryInit(Threads) /\ ClockParked /\ AliyunParked /\ XunleiParked /\ PersistInit /\ BfsParked /\ ExtParked

FactoryConcSpec == FactoryConcInit /\ [][FactoryNext]_vars

\* Threads call _ensure_token_valid on one AliyunAdapter while time passes.
AliyunSpecInit ==
    AliyunInit /\ ClockParked /\ FactoryParked /\ XunleiParked /\ PersistInit /\ BfsParked /\ ExtParked

AliyunSpec == AliyunSpecInit /\ [][AliyunNext \/ Tick]_vars

\* Threads call _ensure_tokens_valid on one XunleiAdapter while time passes.
XunleiSpecInit ==
    XunleiInit /\ ClockParked /\ FactoryParked /\ AliyunParked /\ PersistInit /\ BfsParked /\ ExtParked

XunleiSpec == XunleiSpecInit /\ [][XunleiNext \/ Tick]_vars

PersistSpecInit ==
    PersistInit /\ ClockParked /\ FactoryParked /\ AliyunParked /\ XunleiParked /\ BfsParked /\ ExtParked

\* The persistence hook is handed rotation results, in any order.
HookNext == \E i \in Accounts, T \in Past : SaveRotation(i, T)

HookSpec == PersistSpecInit /\ [][HookNext \/ Tick]_vars

\* Adapters are built from the configuration by the factory and rotate
\* their refresh tokens.
RotateNext == \E i \in Accounts : CreateFromConfig(i) \/ RotateAndSave(i)

RotateSpec == PersistSpecInit /\ [][RotateNext \/ Tick]_vars

\* One resolution of a target, by any of the three resolvers, in any share.
BfsSpecInit ==
    BfsInit /\ ClockParked /\ FactoryParked /\ AliyunParked /\ XunleiParked /\ PersistInit /\ ExtParked

BfsSpec == BfsSpecInit /\ [][BfsNext]_vars

\* One paginated listing, by any adapter, against any provider script.
ListSpecInit ==
    /\ ListInit
    /\ ClockParked /\ FactoryParked /\ AliyunParked /\ XunleiParked /\ PersistInit /\ BfsParked
    /\ RouterParked /\ OpParked /\ XreqParked /\ MgrParked /\ RotParked /\ RaceParked /\ UrlParked /\ CallParked /\ BatchParked /\ PollParked /\ MkdirParked /\ NamedParked /\ AuthParked /\ FresParked

ListSpec == ListSpecInit /\ [][ListNext]_vars

\* An account manager is loaded, its adapters are initialised and tasks are
\* routed, in any order.
RouterSpecInit ==
    /\ RouterInit
    /\ ClockParked /\ FactoryParked /\ AliyunParked /\ XunleiParked /\ PersistInit /\ BfsParked
    /\ ListParked /\ OpParked /\ XreqParked /\ MgrParked /\ RotParked /\ RaceParked /\ UrlParked /\ CallParked /\ BatchParked /\ PollParked /\ MkdirParked /\ NamedParked /\ AuthParked /\ FresParked

RouterSpec == RouterSpecInit /\ [][RouterNext]_vars

\* Thread 1 calls operations on one AliyunAdapter while time passes.
OpSpecInit ==
    /\ OpInit /\ ClockParked /\ FactoryParked /\ XunleiParked /\ PersistInit /\ BfsParked
    /\ ListParked /\ RouterParked /\ XreqParked /\ MgrParked /\ RotParked /\ RaceParked /\ UrlParked /\ CallParked /\ BatchParked /\ PollParked /\ MkdirParked /\ NamedParked /\ AuthParked /\ FresParked

OpSpec == OpSpecInit /\ [][OpNext \/ AliyunNext \/ Tick]_vars

\* Each thread calls init() or _ensure_tokens_valid on one XunleiAdapter
\* while time passes.
XunleiInitSpecInit ==
    XunleiInit /\ ClockParked /\ FactoryParked /\ AliyunParked /\ PersistInit /\ BfsParked /\ ExtParked

XunleiInitSpec == XunleiInitSpecInit /\ [][XunleiNext \/ XunleiInitNext \/ Tick]_vars

\* The token lifecycle of either adapter: threads call _ensure_token_valid
\* on one AliyunAdapter, or _ensure_tokens_valid on one XunleiAdapter just
\* built (both tokens empty, lines 131-134), while time passes.
TokenSpecInit ==
    /\ \/ AliyunInit /\ XunleiParked
       \/ AliyunParked /\ XunleiInit /\ xl_access_token = "" /\ xl_captcha_token = ""
    /\ ClockParked /\ FactoryParked /\ PersistInit /\ BfsParked /\ ExtParked

TokenSpec == TokenSpecInit /\ [][AliyunNext \/ XunleiNext \/ Tick]_vars

\* Threads call _request on one XunleiAdapter, each one once, within one
\* tick of the clock.
XunleiRequestSpecInit ==
    /\ XunleiInit /\ XreqInit /\ ClockParked /\ FactoryParked /\ AliyunParked /\ PersistInit
    /\ BfsParked /\ ListParked /\ RouterParked /\ OpParked /\ MgrParked /\ RotParked /\ RaceParked /\ UrlParked /\ CallParked /\ BatchParked /\ PollParked /\ MkdirParked /\ NamedParked /\ AuthParked /\ FresParked

XunleiRequestSpec == XunleiRequestSpecInit /\ [][XunleiNext \/ XunleiRequestNext]_vars

\* One caller uses the factory directly and through an AccountManager.
ManagerSpecInit ==
    /\ FactoryInit({1}) /\ ManagerInit /\ ClockParked /\ AliyunParked /\ XunleiParked
    /\ PersistInit /\ BfsParked /\ ListParked /\ RouterParked /\ OpParked /\ XreqParked /\ RotParked /\ RaceParked /\ UrlParked /\ CallParked /\ BatchParked /\ PollParked /\ MkdirParked /\ NamedParked /\ AuthParked /\ FresParked

ManagerSpec == ManagerSpecInit /\ [][FactoryNext \/ ManagerNext]_vars

\* One caller obtains the adapters of the configured accounts from the
\* factory while the adapters rotate their secrets.
RotationSpecInit ==
    /\ FactoryInit({1}) /\ RotInit /\ ClockParked /\ AliyunParked /\ XunleiParked
    /\ PersistInit /\ BfsParked /\ ListParked /\ RouterParked /\ OpParked /\ XreqParked
    /\ MgrParked /\ RaceParked /\ UrlParked /\ CallParked /\ BatchParked /\ PollParked /\ MkdirParked /\ NamedParked /\ AuthParked /\ FresParked

RotationSpec == RotationSpecInit /\ [][RotationNext]_vars

\* update() requests and rotation persists interleave on one configuration
\* file.
RaceSpecInit ==
    /\ PersistInit /\ RaceInit /\ ClockParked /\ FactoryParked /\ AliyunParked /\ XunleiParked
    /\ BfsParked /\ ListParked /\ RouterParked /\ OpParked /\ XreqParked /\ MgrParked
    /\ RotParked /\ UrlParked /\ CallParked /\ BatchParked /\ PollParked /\ MkdirParked /\ NamedParked /\ AuthParked /\ FresParked

RaceSpec == RaceSpecInit /\ [][RaceNext]_vars

\* Patterns are registered and URLs are looked up.
UrlSpecInit ==
    /\ UrlInit /\ ClockParked /\ FactoryParked /\ AliyunParked /\ XunleiParked /\ PersistInit
    /\ BfsParked /\ ListParked /\ RouterParked /\ OpParked /\ XreqParked /\ MgrParked
    /\ RotParked /\ RaceParked /\ CallParked /\ BatchParked /\ PollParked /\ MkdirParked /\ NamedParked /\ AuthParked /\ FresParked

UrlSpec == UrlSpecInit /\ [][UrlNext]_vars

\* One caller uses create_adapter, create_adapter_by_url and clear_cache.
FactoryUrlSpecInit ==
    FactoryInit({1}) /\ ClockParked /\ AliyunParked /\ XunleiParked /\ PersistInit /\ BfsParked /\ ExtParked

FactoryUrlSpec == FactoryUrlSpecInit /\ [][FactoryNext \/ ByUrlNext]_vars

\* A caller calls the public operations of the adapters one after the other;
\* the provider and the network answer as they like.
CallSpecInit ==
    /\ CallInit /\ ClockParked /\ FactoryParked /\ AliyunParked /\ XunleiParked /\ PersistInit
    /\ BfsParked /\ ListParked /\ RouterParked /\ OpParked /\ XreqParked /\ MgrParked
    /\ RotParked /\ RaceParked /\ UrlParked /\ BatchParked /\ PollParked /\ MkdirParked /\ NamedParked /\ AuthParked /\ FresParked

CallSpec == CallSpecInit /\ [][CallNext]_vars

\* A caller transfers batches of files with save_file; the provider copies
\* some of the items of each batch and fails the others.
BatchSpecInit ==
    /\ BatchInit /\ ClockParked /\ FactoryParked /\ AliyunParked /\ XunleiParked /\ PersistInit
    /\ BfsParked /\ ListParked /\ RouterParked /\ OpParked /\ XreqParked /\ MgrParked
    /\ RotParked /\ RaceParked /\ UrlParked /\ CallParked /\ PollParked /\ MkdirParked /\ NamedParked /\ AuthParked /\ FresParked

BatchSpec == BatchSpecInit /\ [][BatchNext]_vars

\* A caller polls transfers with query_task; the provider answers each
\* status request as it likes.
PollSpecInit ==
    /\ PollInit /\ ClockParked /\ FactoryParked /\ AliyunParked /\ XunleiParked /\ PersistInit
    /\ BfsParked /\ ListParked /\ RouterParked /\ OpParked /\ XreqParked /\ MgrParked
    /\ RotParked /\ RaceParked /\ UrlParked /\ CallParked /\ BatchParked /\ MkdirParked /\ NamedParked /\ AuthParked /\ FresParked

PollSpec == PollSpecInit /\ [][PollNext]_vars

\* A listing against a provider that repeats its answers; the thread that
\* runs the loop keeps running.
ListLoopSpecInit ==
    /\ RepeatListInit /\ ClockParked /\ FactoryParked /\ AliyunParked /\ XunleiParked
    /\ PersistInit /\ BfsParked /\ RouterParked /\ OpParked /\ XreqParked /\ MgrParked
    /\ RotParked /\ RaceParked /\ UrlParked /\ CallParked /\ BatchParked /\ PollParked /\ MkdirParked /\ NamedParked /\ AuthParked /\ FresParked

ListLoopSpec == ListLoopSpecInit /\ [][RepeatListPage]_vars /\ WF_vars(RepeatListPage)

\* mkdir is called, and called again, on a path of existing folders.
MkdirSpecInit ==
    /\ MkdirInit /\ ClockParked /\ FactoryParked /\ AliyunParked /\ XunleiParked /\ PersistInit
    /\ BfsParked /\ ListParked /\ RouterParked /\ OpParked /\ XreqParked /\ MgrParked
    /\ RotParked /\ RaceParked /\ UrlParked /\ CallParked /\ BatchParked /\ PollParked /\ NamedParked /\ AuthParked /\ FresParked

MkdirSpec == MkdirSpecInit /\ [][MkdirNext]_vars

\* A caller transfers files by name into a directory that may hold files of
\* these names.
NamedSpecInit ==
    /\ NamedInit /\ ClockParked /\ FactoryParked /\ AliyunParked /\ XunleiParked /\ PersistInit
    /\ BfsParked /\ ListParked /\ RouterParked /\ OpParked /\ XreqParked /\ MgrParked
    /\ RotParked /\ RaceParked /\ UrlParked /\ CallParked /\ BatchParked /\ PollParked
    /\ MkdirParked /\ AuthParked /\ FresParked

NamedSpec == NamedSpecInit /\ [][NamedNext]_vars

\* Accounts are loaded, their adapters log in again and again with varying
\* success, and tasks are routed.
AuthSpecInit ==
    /\ RouterInit /\ AuthInit /\ ClockParked /\ FactoryParked /\ AliyunParked /\ XunleiParked
    /\ PersistInit /\ BfsParked /\ ListParked /\ OpParked /\ XreqParked /\ MgrParked
    /\ RotParked /\ RaceParked /\ UrlParked /\ CallParked /\ BatchParked /\ PollParked
    /\ MkdirParked /\ NamedParked /\ FresParked

AuthSpec == AuthSpecInit /\ [][AuthNext]_vars

\* ls_dir and save_file are called with fs_ids on drives of varying depth.
FresSpecInit ==
    /\ FresInit /\ ClockParked /\ FactoryParked /\ AliyunParked /\ XunleiParked /\ PersistInit
    /\ BfsParked /\ ListParked /\ RouterParked /\ OpParked /\ XreqParked /\ MgrParked
    /\ RotParked /\ RaceParked /\ UrlParked /\ CallParked /\ BatchParked /\ PollParked
    /\ MkdirParked /\ NamedParked /\ AuthParked

FresSpec == FresSpecInit /\ [][FresNext]_vars

-----------------------------------------------------------------------------
(* Claims about the factory.                                                *)

\* C1: with one caller, every create_adapter call made for the same
\* (provider, secret) since the last clear_cache returns the same instance
\* (the one the cache holds), and no instance returned after a clear_cache
\* is one that was returned before it.
C1_SameInstanceUntilClear ==
    \A k \in CacheKeys :
        /\ Cardinality(handed[k]) <= 1
        /\ (fpc[1] = "idle" /\ handed[k] # {}) => handed[k] = {instance_cache[k]}
        /\ handed[k] \cap stale = {}

\* C1 witness: an instance was returned for a key, clear_cache ran, a call
\* for the same key constructed another instance, and the call after that
\* was a cache hit returning it.
C1_Witness ==
    \E k \in CacheKeys :
        /\ clears = 1
        /\ \E o \in stale : heap[o] = k
        /\ fpc[1] = "idle"
        /\ fkey[1] = k
        /\ fcached[1] # None
        /\ fret[1] = fcached[1]
        /\ fret[1] \in handed[k]

\* C2: under any interleaving of concurrent create_adapter calls with no
\* clear_cache, at most one adapter is constructed per cache key and every
\* caller receives that instance.
C2_OneInstancePerKey ==
    clears = 0 =>
        \A k \in CacheKeys :
            /\ Cardinality({o \in 1..Len(heap) : heap[o] = k}) <= 1
            /\ Cardinality(handed[k]) <= 1

-----------------------------------------------------------------------------
(* Claims about the token lifecycle.                                        *)

\* C3: when every thread has finished its _ensure_token_valid() call on an
\* AliyunAdapter whose token was absent or expired, the provider answered
\* every refresh with a token and that token has not reached its expiry,
\* the token endpoint has received exactly one request.
C3_AliyunOneRefresh ==
    (AliyunAllDone /\ al_rejected = 0 /\ now < al_expires_in - AliyunMargin)
        => al_requests = 1

\* C4: when every thread has finished its _ensure_tokens_valid() call on a
\* XunleiAdapter and every request was answered with a token, an access token
\* that was expired at the start and whose replacement has not reached its
\* expiry was refreshed with exactly one request, and likewise the captcha
\* token.
C4_XunleiOneRefresh ==
    (XunleiAllDone /\ xl_rejected = 0) =>
        /\ (xl_start.access_expired /\ now < xl_expires_in.access - XunleiMargin)
               => xl_access_requests = 1
        /\ (xl_start.captcha_expired /\ now < xl_expires_in.captcha - XunleiCaptchaMargin)
               => xl_captcha_requests = 1

\* C4 witness: both tokens were expired, every thread returned True, one
\* request went to each endpoint, and a thread that had waited for the lock
\* found both tokens valid at its double check.
C4_Witness ==
    /\ XunleiAllDone
    /\ xl_start.access_expired /\ xl_start.captcha_expired
    /\ \A t \in Threads : xret[t]
    /\ xl_access_requests = 1 /\ xl_captcha_requests = 1
    /\ \E t \in Threads : xlocal[t].access_ok /\ xlocal[t].captcha_ok

-----------------------------------------------------------------------------
(* Claims about the persistence of rotated tokens.                          *)

Latest(S) == CHOOSE T \in S : \A U \in S : U <= T

\* C5: after any sequence of calls of the persistence hook, the secret
\* stored for an account is the one of the rotation result with the greatest
\* timestamp handed over for it so far.
C5_NewestRotationStored ==
    \A i \in Accounts :
        applied[i] # {} => config[i].cookie = RotationResult(i, Latest(applied[i])).refresh_token

\* C6: an account for which no refresh token was rotated keeps the secret
\* and the timestamp it was configured with, whatever the adapters of the
\* other accounts rotate.
C6_OtherAccountsKept ==
    \A j \in Accounts : applied[j] = {} => config[j] = InitConfig[j]

-----------------------------------------------------------------------------
(* Claims about the breadth-first resolvers.                                *)

\* The places of the listings where id n is served.
Places(n) ==
    UNION {{<<c, k>> : k \in {j \in DOMAIN share.children[c] : share.children[c][j] = n}} :
              c \in DOMAIN share.children}

\* The ids found within k listings below the containers of S.
RECURSIVE Within(_, _)
Within(S, k) ==
    IF k = 0 THEN S
    ELSE Within(S \cup {share.children[p[1]][p[2]] :
                           p \in UNION {{c} \X DOMAIN share.children[c] : c \in S}},
                k - 1)

\* The share is a simple hierarchy: every id is served at exactly one place
\* and is found below the root.
SimpleHierarchy ==
    /\ \A n \in DOMAIN share.isdir : Cardinality(Places(n)) = 1
    /\ Within({0}, Cardinality(DOMAIN share.isdir)) = DOMAIN share.children

\* In a simple hierarchy, the ids from the child of the root down to n.
RECURSIVE PathTo(_)
PathTo(n) ==
    IF n = 0 THEN <<>>
    ELSE Append(PathTo((CHOOSE p \in Places(n) : TRUE)[1]), n)

Depth(n) == Len(PathTo(n))

\* The depth bound of the resolver that runs: max_depth levels of listings
\* below the root for 115, below the root entries for Baidu; the Aliyun
\* resolver is given none and is measured against the greatest bound named.
DepthBound ==
    CASE resolver = "115"    -> max_depth
      [] resolver = "baidu"  -> max_depth + 1
      [] resolver = "aliyun" -> NamedDepthBound

\* C7: in a simple hierarchy, for a target directory at a depth between 1
\* and the depth bound, the resolver returns the breadcrumb root-to-target:
\* as many entries as the depth, each the child of the one before, the last
\* one the target.
C7_BreadcrumbRootToTarget ==
    (/\ bpc = "done"
     /\ SimpleHierarchy
     /\ share.isdir[share.target]
     /\ Depth(share.target) <= DepthBound)
        => bresult = PathTo(share.target)

\* C8: in a simple hierarchy no container deeper than the depth bound is
\* listed, and a target deeper than the bound is reported as not found.
C8_HardDepthBound ==
    (bpc \in {"run", "done"} /\ SimpleHierarchy) =>
        /\ \A c \in blisted : Depth(c) <= DepthBound
        /\ (bpc = "done" /\ Depth(share.target) > DepthBound) => bresult = NotFound

\* C9: no container id is appended to a queue more than once in one
\* resolution, whatever the listings serve.
C9_EnqueuedOnce ==
    bpc \in {"run", "done"} => \A c \in DOMAIN benq : benq[c] <= 1

\* C10: when the resolution ends without the target, every item of every
\* container that was listed has been looked at, on whichever page it is
\* served; so a target directory of a simple hierarchy within the depth
\* bound is found.
C10_EveryPageExamined ==
    bpc = "done" =>
        /\ bresult = NotFound =>
              \A c \in blisted : \A k \in DOMAIN share.children[c] :
                  share.children[c][k] \in bexamined
        /\ (/\ SimpleHierarchy
            /\ share.isdir[share.target]
            /\ Depth(share.target) <= DepthBound) => bresult # NotFound

-----------------------------------------------------------------------------
(* Claims about the paginated listings.                                     *)

\* The provider's r-th answer is a full page.
FullPage(r) == PageOf(r).ok /\ PageOf(r).size = PageLimit

\* The number of full pages the provider serves before its first page that
\* is not full.
FullPages == CHOOSE k \in 0..Len(lscript) :
                 /\ \A r \in 1..k : FullPage(r)
                 /\ ~FullPage(k + 1)

\* The items of the first n answers, in page order.
RECURSIVE Served(_)
Served(n) == IF n = 0 THEN <<>> ELSE Served(n - 1) \o ItemsOf(n)

\* C11: when the provider serves k full pages and then a page of fewer than
\* the page size, the 115 listing returns the items of those k+1 pages in
\* page order and has sent k+1 page requests, none after the short page.
C11_StopsAfterShortPage ==
    (lister = "115" /\ lpc = "done" /\ PageOf(FullPages + 1).ok) =>
        /\ lcode = 0
        /\ lmerged = Served(FullPages + 1)
        /\ lreq = FullPages + 1

\* A 115 listing of two pages has ended at the second, short, page while the
\* provider had a third page prepared.
C11_Witness ==
    /\ lister = "115"
    /\ lpc = "done"
    /\ FullPages = 1
    /\ PageOf(2).ok /\ PageOf(2).size > 0
    /\ Len(lscript) = 3 /\ PageOf(3).size > 0
    /\ lreq = 2
    /\ Len(lmerged) = PageLimit + PageOf(2).size

\* C12: a cursor-driven listing sends a further page request only after a
\* page that was not empty and carried a next cursor.
C12_EmptyPageEndsListing ==
    (lister \in {"aliyun", "xunlei"} /\ lreq >= 2) =>
        /\ PageOf(lreq - 1).size > 0
        /\ PageOf(lreq - 1).cursor

\* The number of pages the provider serves before its first empty page.
NonEmptyPages == CHOOSE k \in 0..Len(lscript) :
                     /\ \A r \in 1..k : PageOf(r).size > 0
                     /\ PageOf(k + 1).size = 0

\* C13: when the provider answers without errors and the total it reports
\* is missing or smaller than the number of items it serves, the UC listing
\* still returns every item served before the first empty page.
C13_TotalNotTrusted ==
    (/\ lister = "uc"
     /\ lpc = "done"
     /\ \A r \in 1..(NonEmptyPages + 1) : PageOf(r).ok
     /\ ltotal < Len(Served(NonEmptyPages)))
        => lmerged = Served(NonEmptyPages)

-----------------------------------------------------------------------------
(* Claims about the account manager.                                        *)

\* The account in slot i of the loaded configuration is enabled and of a
\* known drive type, so that load_accounts builds its adapter.
Loadable(i) == rconfig[i].enabled /\ rconfig[i].drive_type \in ADAPTER_MAP

\* The adapter is the one built from an account that is loadable and, when a
\* name is given, has that name.
BuiltFor(adapter, name) ==
    \E i \in DOMAIN rconfig :
        /\ Loadable(i)
        /\ name \in {0, rconfig[i].name}
        /\ adapter = <<rconfig[i].drive_type, i>>

\* C14: a task that names an account which is enabled and was loaded gets
\* the adapter loaded under that name, an adapter built from an enabled
\* account of that name, whatever the provider of its share URL and
\* whatever other accounts match that provider.
C14_NamedAccountSelected ==
    (/\ rtask # <<>>
     /\ rtask[1].account_name # 0
     /\ \E i \in DOMAIN rconfig : Loadable(i) /\ rconfig[i].name = rtask[1].account_name)
        => /\ rresult \in {radapters[k].adapter : k \in Named(rtask[1].account_name)}
           /\ BuiltFor(rresult, rtask[1].account_name)

\* A task naming the second account, whose share URL is of the provider of
\* the first, active, account, was given the second account's adapter.
C14_Witness ==
    /\ rtask # <<>>
    /\ rtask[1].account_name = 2
    /\ rconfig[2].name = 2 /\ Loadable(2)
    /\ Loadable(1) /\ rconfig[1].drive_type = rtask[1].provider
    /\ rconfig[2].drive_type # rtask[1].provider
    /\ <<rconfig[1].drive_type, 1>> \in ractive
    /\ rresult = <<rconfig[2].drive_type, 2>>

\* The first slot whose account is loadable and of the provider (0: none).
FirstOfProvider(provider) ==
    LET of == {i \in DOMAIN rconfig : Loadable(i) /\ rconfig[i].drive_type = provider}
    IN  IF of = {} THEN 0 ELSE CHOOSE i \in of : \A j \in of : i <= j

\* C15: a task without account name whose share URL is of provider P gets
\* the first enabled account of provider P, when that account's adapter is
\* in the table, whether or not the adapter has been initialised.
C15_FirstAccountOfProvider ==
    (/\ rtask # <<>>
     /\ rtask[1].account_name = 0
     /\ FirstOfProvider(rtask[1].provider) # 0
     /\ \E k \in DOMAIN radapters :
            radapters[k].adapter = <<rtask[1].provider, FirstOfProvider(rtask[1].provider)>>)
        => rresult = <<rtask[1].provider, FirstOfProvider(rtask[1].provider)>>

\* C16: the call returns None exactly when no loaded account has the task's
\* name, none is of the task's provider and there is no default adapter;
\* and an adapter it returns is one of the adapters of the table.
C16_PriorityAndNone ==
    rtask # <<>> =>
        /\ rresult = <<>> <=>
              /\ ~\E i \in DOMAIN rconfig :
                     Loadable(i) /\ rconfig[i].name = rtask[1].account_name
              /\ ~\E i \in DOMAIN rconfig :
                     Loadable(i) /\ rconfig[i].drive_type = rtask[1].provider
              /\ rdefault = <<>>
        /\ rresult # <<>> => rresult \in {radapters[k].adapter : k \in DOMAIN radapters}

\* C17: after load_accounts every adapter of the table, the default adapter
\* and every adapter returned for a task is built from an account of the
\* configuration just loaded that is enabled and of a known drive type.
C17_OnlyLoadableAccounts ==
    rloads > 0 =>
        /\ \A k \in DOMAIN radapters : BuiltFor(radapters[k].adapter, radapters[k].name)
        /\ rdefault # <<>> => BuiltFor(rdefault, 0)
        /\ rresult # <<>> => BuiltFor(rresult, 0)
        /\ \A task \in Tasks :
               get_adapter_for_task(task) # <<>> => BuiltFor(get_adapter_for_task(task), 0)

\* After a second load_accounts, with the first account now disabled, its
\* adapter, active and the default before, is out of the table, and a task
\* naming it got another account's adapter.
C17_Witness ==
    /\ rloads = 2
    /\ ~rconfig[1].enabled /\ rconfig[1].drive_type \in ADAPTER_MAP
    /\ <<rconfig[1].drive_type, 1>> \in ractive
    /\ Loadable(2)
    /\ rtask # <<>> /\ rtask[1].account_name = 1 /\ rtask[1].provider = rconfig[1].drive_type
    /\ rresult = <<rconfig[2].drive_type, 2>>

-----------------------------------------------------------------------------
(* Claims about the operations of an adapter after a failed refresh.        *)

\* C18: an operation that was called after a refresh had failed on the
\* adapter returns a failure, whatever the provider answers to later
\* refresh attempts.
C18_FailureLatched ==
    (op.phase = "idle" /\ odone > 0 /\ op.prior) => oresult = "fail"

\* C19: from the call of an operation to its return, at most one refresh
\* request is sent to the token endpoint.
C19_OneRefreshPerOperation ==
    al_requests - op.base <= 1

-----------------------------------------------------------------------------
(* Claims about the token lock.                                             *)

\* The positions of a thread inside _refresh_access_token or
\* _refresh_captcha_token.
InRefresh == {"access", "captcha", "init_access", "init_captcha"}

\* C20: every thread that is executing a token refresh holds the token lock
\* of the adapter, so no two threads execute a refresh at the same time.
C20_RefreshUnderLock ==
    /\ \A t \in Threads : xpc[t] \in InRefresh => xl_lock = t
    /\ Cardinality({t \in Threads : xpc[t] \in InRefresh}) <= 1

-----------------------------------------------------------------------------
(* Claims about the validity window of the access token.                    *)

-----------------------------------------------------------------------------
(* Claims about the token gate of XunleiAdapter._request.                   *)

-----------------------------------------------------------------------------
(* Claims about the adapters handed out after clear_cache.                  *)

\* C23: no adapter that was handed out before a clear_cache is handed out
\* after it, neither by create_adapter nor by a lookup of the
\* AccountManager.
C23_NoInstanceFromBeforeClear ==
    [][/\ \A k \in CacheKeys : handed'[k] \cap stale' = {}
       /\ mgets' = mgets + 1 => mret'.adapter \notin stale
      ]_vars

-----------------------------------------------------------------------------
(* Claims about the cache after a token rotation.                           *)

\* C24: with no clear_cache in between, after an adapter has rotated and
\* persisted its secret, a create_adapter call with the new secret returns
\* that adapter and constructs none (a construction runs one more refresh).
C24_RotatedInstanceReused ==
    \A provider \in ADAPTER_MAP :
        (/\ rotator[provider] # None
         /\ clears = 0
         /\ fkey[1] = _make_cache_key(provider, csecret[provider])) =>
            /\ fpc[1] = "idle"
            /\ fret[1] = rotator[provider]

-----------------------------------------------------------------------------
(* Claims about writers of the configuration file.                          *)

\* C25: once the persist of an account's rotated secret has returned and no
\* handler is between its read and its write, the configuration does not
\* hold the secret the account had before the rotation.
C25_NoRollbackByUpdate ==
    (updating.pc = "idle" /\ sav.pc = "idle") =>
        \A i \in Accounts :
            persisted[i] # <<>> =>
                \A k \in 1..Len(config) :
                    config[k].name = InitConfig[i].name =>
                        config[k].cookie # InitConfig[i].cookie

-----------------------------------------------------------------------------
(* Claims about the provider detection table.                               *)

\* The places of the table whose pattern is found in the url.
MatchingEntries(table, url) == {i \in 1..Len(table) : re_search(table[i].pattern, url)}

\* The provider of the first entry that matches, "None" when none does.
FirstMatch(table, url) ==
    LET hits == MatchingEntries(table, url)
    IN  IF hits = {} THEN "None"
        ELSE table[CHOOSE i \in hits : \A j \in hits : i <= j].drive_type

\* C27: a lookup returns the provider of the first matching entry in table
\* order, and a call of register_url_pattern changes the result of no URL
\* that an entry already in the table matches.
C27_FirstMatchAndAppend ==
    [][/\ uquery' # uquery =>
             uquery'.result = FirstMatch(URL_PATTERNS, uquery'.url)
       /\ URL_PATTERNS' # URL_PATTERNS =>
             \A url \in Urls :
                 MatchingEntries(URL_PATTERNS, url) # {} =>
                     FirstMatch(URL_PATTERNS', url) = FirstMatch(URL_PATTERNS, url)
      ]_vars

\* C26: a create_adapter call that returns None (unknown provider, or a
\* constructor that raised) leaves the instance cache and the set of
\* constructed adapters as they were, every entry of the cache is an adapter
\* whose construction completed for that key, and create_adapter_by_url with
\* a URL that no pattern matches returns None in one step that changes
\* nothing of the cache.
C26_FailureLeavesCacheAlone ==
    [][/\ \A t \in Threads :
            (fret'[t] = None /\ fpc'[t] = "idle" /\ (fret[t] # None \/ fpc[t] = "construct"))
                => /\ instance_cache' = instance_cache
                   /\ heap' = heap
       /\ \A k \in CacheKeys :
            instance_cache'[k] # None =>
                /\ instance_cache'[k] \in 1..Len(heap')
                /\ heap'[instance_cache'[k]] = k
       /\ \A t \in Threads, url \in Urls, cookie \in Cookies :
            (FirstMatch(URL_PATTERNS, url) = "None" /\ CreateAdapterByUrl(t, url, cookie))
                => /\ fret'[t] = None
                   /\ fpc'[t] = "idle"
                   /\ instance_cache' = instance_cache
      ]_vars

\* The constructor raised for a key while another adapter was cached: the
\* call returned None, the cache holds the other adapter and nothing for
\* the key of the failed construction.
C26_Witness ==
    /\ fpc[1] = "idle"
    /\ fret[1] = None
    /\ fkey[1] \in CacheKeys
    /\ fcached[1] = None
    /\ instance_cache[fkey[1]] = None
    /\ clears = 0
    /\ \E k \in CacheKeys : instance_cache[k] # None

C29_FailureKindsDistinct ==
    (/\ call.pc = "returned"
     /\ call.op = "ls_dir"
     /\ call.adapter \in LsDirAdapters
     /\ FailureClass(call.outcome) # "none")
        => \A other \in TokenOutcomes \cup RequestOutcomes :
              (/\ FailureClass(other) # "none"
               /\ FailureClass(other) # FailureClass(call.outcome)
               /\ other \in TokenOutcomes => EnsuresFirst(call.adapter, call.op))
                  => ls_dir_result(call.adapter, other) # call.result

\* C30: when the provider copied some items of a batch and failed others,
\* the result of save_file has one entry per requested item, in the order
\* of the request: the new file id of an item that was copied, the empty
\* mark of an item that failed.
C30_FailedItemsIdentified ==
    (/\ batch.pc = "returned"
     /\ batch.saved # {}
     /\ \E k \in 1..Len(batch.items) : batch.items[k] \notin batch.saved)
        => /\ batch.listed
           /\ Len(batch.fids) = Len(batch.items)
           /\ \A k \in 1..Len(batch.items) :
                 batch.fids[k] = IF batch.items[k] \in batch.saved
                                 THEN NewFid(batch.items[k])
                                 ELSE NoFid

\* C31: a query_task call makes at most max_retries status requests, and a
\* call that returns after max_retries answers that were all "in progress"
\* returns the timeout failure (status 500, code 1).
C31_TimeoutAfterLastPoll ==
    /\ Len(poll.seen) <= max_retries
    /\ (/\ poll.pc = "returned"
        /\ Len(poll.seen) = max_retries
        /\ \A k \in 1..Len(poll.seen) : poll.seen[k] \in InProgress)
           => (poll.result.status = 500 /\ poll.result.code = 1)

\* C32: every listing ends after finitely many page requests, whatever the
\* provider answers.
C32_ListingTerminates == <>(lpc = "done")

CalledAlone(t) ==
    /\ xpc[t] \in {"done", "returned"}
    /\ \A u \in Threads \ {t} : xpc[u] = "start"

\* C34: on an adapter that holds a refresh token, a call of
\* _ensure_tokens_valid that finds only the captcha token expired sends one
\* captcha request and no access-token request, and a call that finds only
\* the access token expired sends one access-token request and no captcha
\* request.
C34_RefreshesIndependent ==
    /\ (xl_start.captcha_expired /\ ~xl_start.access_expired) =>
          /\ xl_access_requests = 0
          /\ \A t \in Threads : CalledAlone(t) => xl_captcha_requests = 1
    /\ (xl_start.access_expired /\ ~xl_start.captcha_expired) =>
          /\ xl_captcha_requests = 0
          /\ \A t \in Threads : CalledAlone(t) => xl_access_requests = 1

\* A call that found only the access token expired has refreshed it and
\* returned True without a captcha request.
C34_Witness ==
    /\ xl_start.access_expired /\ ~xl_start.captcha_expired
    /\ \E t \in Threads : CalledAlone(t) /\ xret[t]
    /\ xl_access_requests = 1
    /\ xl_captcha_requests = 0
    /\ xl_access_token = "access"

\* C35: mkdir of a path whose every component exists as a folder creates no
\* folder and returns code 0 with the id of the existing last folder.
C35_MkdirIdempotent ==
    /\ mkd.created = 0
    /\ mkd.pc = "returned" => (mkd.code = 0 /\ mkd.fid = ExistingId(Len(mkd.path)))

\* C36: a save_file call with file_names that succeeds returns one entry per
\* name, and each entry is empty or the file id of a file the transfer made
\* whose name equals the name asked for, exactly or after cleaning.
C36_FidsAreOfNewItems ==
    (named.pc = "returned" /\ named.code = 0) =>
        /\ Len(named.fids) = Len(named.names)
        /\ \A k \in 1..Len(named.names) :
              \/ named.fids[k] = NoFid
              \/ \E item \in named.saved :
                    /\ named.fids[k] = NewFid(item)
                    /\ CleanName(ItemName(item)) = CleanName(ItemName(named.names[k]))

\* C37: a refresh never leaves the adapter without its refresh token and
\* never hands an empty secret to the persistence hook: an answer without a
\* refresh_token keeps the one held and saves nothing (AliyunAdapter).
C37_RefreshTokenNeverEmpty ==
    /\ al_refresh_token # ""
    /\ \A k \in 1..Len(al_saved) : al_saved[k] # ""

\* C38: an adapter whose last init() failed is not active, so the step of
\* get_adapter_for_task that matches the provider does not return it.
C38_ActiveMeansLastLoginSucceeded ==
    /\ ractive \cap rfailed = {}
    /\ (/\ rtask # <<>>
        /\ rtask[1].account_name = 0
        /\ rtask[1].provider \in ADAPTER_MAP
        /\ rresult # rdefault)
           => rresult \notin rfailed

\* The fs_id of the call is not found within the depth bound: the drive
\* does not hold it, or holds it deeper than the search goes.
Unresolvable == fres.fid > fres.chain \/ fres.fid > resolve_max_depth

\* C39: a call with an fs_id that cannot be resolved within the depth bound
\* reports a failure and does not list the root or transfer into it.
C39_UnresolvedIsNotRoot ==
    (fres.pc = "returned" /\ Unresolvable) =>
        (fres.code # 0 /\ fres.path # RootPath)

====
